---------------------------- MODULE Spec2Model ----------------------------
(***************************************************************************)
(* The copy-on-write round state of the ledger (ledger/appcow.go and the   *)
(* cow.go part that follows it in the same file): a chain of roundCowState *)
(* nodes over a read-only base, with application storage deltas, account   *)
(* modifications, transaction ids, leases and creatables.                  *)
(*                                                                         *)
(* The chain is the sequence `stack`: stack[1] is the root node, whose     *)
(* lookupParent is the base; stack[d+1] is the child of stack[d]; the      *)
(* evaluator works on the last node.  A node that commits or is dropped    *)
(* leaves the chain, so the pointers applyChild and commitToParent share   *)
(* between child and parent are never used from two live nodes, and the    *)
(* nodes are modelled as values.                                           *)
(***************************************************************************)
EXTENDS Integers, Sequences, FiniteSets, TLC

VARIABLES base, stack, result, run, replay, cad

vars == <<base, stack, result, run, replay, cad>>

---------------------------------------------------------------------------
(* Bounds of the model *)

MaxDepth == 3          \* longest chain of nodes
NumKeys == 2           \* keys <<1>> .. <<NumKeys>>
MaxSchema == 1         \* schema components range over 0..MaxSchema
MaxAppKeyLen == 1      \* proto.MaxAppKeyLen
MaxAppBytesValueLen == 1   \* proto.MaxAppBytesValueLen
MaxUintValue == 1      \* Uint values 1..MaxUintValue

---------------------------------------------------------------------------
(* Maps: a Go map is a function whose domain is the set of present keys *)

EmptyMap == [x \in {} |-> TRUE]

MapPut(m, k, v) == [x \in (DOMAIN m) \cup {k} |-> IF x = k THEN v ELSE m[x]]

---------------------------------------------------------------------------
(* uint64 as four 16-bit limbs, least significant first, so that ++ and -- *)
(* wrap exactly as Go's uint64 does                                        *)

Limb == 2^16

RECURSIVE IncAt(_, _)
IncAt(c, i) ==
    IF i > Len(c) THEN c
    ELSE IF c[i] < Limb - 1 THEN [c EXCEPT ![i] = @ + 1]
    ELSE IncAt([c EXCEPT ![i] = 0], i + 1)

RECURSIVE DecAt(_, _)
DecAt(c, i) ==
    IF i > Len(c) THEN c
    ELSE IF c[i] > 0 THEN [c EXCEPT ![i] = @ - 1]
    ELSE DecAt([c EXCEPT ![i] = Limb - 1], i + 1)

U64(n) == <<n, 0, 0, 0>>

Inc64(c) == IncAt(c, 1)

Dec64(c) == DecAt(c, 1)

RECURSIVE GtAt(_, _, _)
GtAt(a, b, i) ==
    IF i = 0 THEN FALSE
    ELSE IF a[i] # b[i] THEN a[i] > b[i]
    ELSE GtAt(a, b, i - 1)

Gt64(a, b) == GtAt(a, b, Len(a))

MaxUint64 == <<Limb - 1, Limb - 1, Limb - 1, Limb - 1>>

---------------------------------------------------------------------------
(* basics.TealValue, basics.StateSchema, storage actions, errors *)

TealBytesType == "bytes"
TealUintType == "uint"

ZeroValue == [Type |-> "", Bytes |-> <<>>, Uint |-> 0]

UintValue(n) == [Type |-> TealUintType, Bytes |-> <<>>, Uint |-> n]

BytesValue(b) == [Type |-> TealBytesType, Bytes |-> b, Uint |-> 0]

ZeroSchema == [NumUint |-> U64(0), NumByteSlice |-> U64(0)]

remainAllocAction == 1
allocAction == 2
deallocAction == 3

NoErr == "nil"


ErrNoStorage == "NO_STORAGE"
ErrAlreadyStorage == "ALREADY_ALLOCATED"
ErrKeyTooLong == "KEY_TOO_LONG"
ErrValueTooLong == "VALUE_TOO_LONG"
ErrSchemaExceeded == "SCHEMA_EXCEEDED"
ErrBadType == "BAD_TYPE"
ErrPanic == "PANIC"
ErrParentIO == "PARENT_IO_ERROR"

---------------------------------------------------------------------------
(* Inputs *)

Addrs == {"A1", "A2"}

\* (addr, aidx, global): the address and the storagePtr of one storage
GlobalStorage == [addr |-> "A1", aidx |-> 7, global |-> TRUE]

LocalStorage == [addr |-> "A2", aidx |-> 7, global |-> FALSE]

Storages == {GlobalStorage, LocalStorage}

Keys == { <<i>> : i \in 1..NumKeys }

LongKey == [i \in 1..(MaxAppKeyLen + 1) |-> 1]

KeyInputs == Keys \cup {LongKey}

LongBytes == [i \in 1..(MaxAppBytesValueLen + 1) |-> 1]

TealValues == { UintValue(n) : n \in 1..MaxUintValue } \cup { BytesValue(<<1>>) }

ValueInputs == TealValues \cup { BytesValue(LongBytes) }

Schemas ==
    { [NumUint |-> U64(u), NumByteSlice |-> U64(b)] : u, b \in 0..MaxSchema }

---------------------------------------------------------------------------
(* The base: the parent of the root node.  It is read through the          *)
(* roundCowParent interface only.                                          *)

CountType(kv, type) == U64(Cardinality({ k \in DOMAIN kv : kv[k].Type = type }))

\* The methods of the base named in b.fail fail with an error of the store
BaseMethods == {"allocated", "getKey", "getStorageCounts", "getStorageLimits"}

baseAllocated(b, st) ==
    IF "allocated" \in b.fail THEN [ok |-> FALSE, err |-> ErrParentIO]
    ELSE [ok |-> b.alloc[st], err |-> NoErr]

baseGetStorageCounts(b, st) ==
    IF "getStorageCounts" \in b.fail THEN [schema |-> ZeroSchema, err |-> ErrParentIO]
    ELSE IF ~b.alloc[st] THEN [schema |-> ZeroSchema, err |-> NoErr]
    ELSE [schema |-> [NumUint |-> CountType(b.kv[st], TealUintType),
                      NumByteSlice |-> CountType(b.kv[st], TealBytesType)],
          err |-> NoErr]

baseGetStorageLimits(b, st) ==
    IF "getStorageLimits" \in b.fail THEN [schema |-> ZeroSchema, err |-> ErrParentIO]
    ELSE IF ~b.alloc[st] THEN [schema |-> ZeroSchema, err |-> NoErr]
    ELSE [schema |-> b.limits[st], err |-> NoErr]

baseGetKey(b, st, key) ==
    IF "getKey" \in b.fail THEN [value |-> ZeroValue, ok |-> FALSE, err |-> ErrParentIO]
    ELSE IF ~b.alloc[st] THEN [value |-> ZeroValue, ok |-> FALSE, err |-> ErrNoStorage]
    ELSE IF key \in DOMAIN b.kv[st]
         THEN [value |-> b.kv[st][key], ok |-> TRUE, err |-> NoErr]
         ELSE [value |-> ZeroValue, ok |-> FALSE, err |-> NoErr]

---------------------------------------------------------------------------
(* Reads of a node.  s is the chain, d the position of the node in it;     *)
(* position 0 is the base.                                                 *)

\* Mutant: a DEALLOC storage delta does not answer, the parent does
RECURSIVE allocatedIgnoresDealloc(_, _, _, _)
allocatedIgnoresDealloc(b, s, d, st) ==
    IF d = 0 THEN baseAllocated(b, st)
    ELSE LET sds == s[d].sdeltas IN
         IF st \in DOMAIN sds /\ sds[st].action = allocAction
         THEN [ok |-> TRUE, err |-> NoErr]
         ELSE allocatedIgnoresDealloc(b, s, d - 1, st)

RECURSIVE allocated(_, _, _, _)
allocated(b, s, d, st) ==
    IF d = 0 THEN baseAllocated(b, st)
    ELSE LET sds == s[d].sdeltas IN
         IF st \in DOMAIN sds /\ sds[st].action = allocAction
         THEN [ok |-> TRUE, err |-> NoErr]
         ELSE IF st \in DOMAIN sds /\ sds[st].action = deallocAction
         THEN [ok |-> FALSE, err |-> NoErr]
         ELSE allocated(b, s, d - 1, st)

RECURSIVE getStorageCounts(_, _, _, _)
getStorageCounts(b, s, d, st) ==
    IF d = 0 THEN baseGetStorageCounts(b, st)
    ELSE LET a == allocated(b, s, d, st)
             sds == s[d].sdeltas
         IN IF a.err # NoErr THEN [schema |-> ZeroSchema, err |-> a.err]
            ELSE IF ~a.ok THEN [schema |-> ZeroSchema, err |-> NoErr]
            ELSE IF st \in DOMAIN sds THEN [schema |-> sds[st].counts, err |-> NoErr]
            ELSE getStorageCounts(b, s, d - 1, st)

RECURSIVE getStorageLimits(_, _, _, _)
getStorageLimits(b, s, d, st) ==
    IF d = 0 THEN baseGetStorageLimits(b, st)
    ELSE LET a == allocated(b, s, d, st)
             sds == s[d].sdeltas
         IN IF a.err # NoErr THEN [schema |-> ZeroSchema, err |-> a.err]
            ELSE IF ~a.ok THEN [schema |-> ZeroSchema, err |-> NoErr]
            ELSE IF st \in DOMAIN sds THEN [schema |-> sds[st].maxCounts, err |-> NoErr]
            ELSE getStorageLimits(b, s, d - 1, st)

\* Mutant: a storage delta without an entry for the key always asks the
\* parent, whatever its action
RECURSIVE getKeyNoMask(_, _, _, _, _)
getKeyNoMask(b, s, d, st, key) ==
    IF d = 0 THEN baseGetKey(b, st, key)
    ELSE LET a == allocated(b, s, d, st)
             sds == s[d].sdeltas
         IN IF a.err # NoErr THEN [value |-> ZeroValue, ok |-> FALSE, err |-> a.err]
            ELSE IF ~a.ok THEN [value |-> ZeroValue, ok |-> FALSE, err |-> ErrNoStorage]
            ELSE IF st \in DOMAIN sds /\ key \in DOMAIN sds[st].kvCow
                 THEN [value |-> sds[st].kvCow[key].new,
                       ok |-> sds[st].kvCow[key].newExists,
                       err |-> NoErr]
                 ELSE getKeyNoMask(b, s, d - 1, st, key)

RECURSIVE getKey(_, _, _, _, _)
getKey(b, s, d, st, key) ==
    IF d = 0 THEN baseGetKey(b, st, key)
    ELSE LET a == allocated(b, s, d, st)
             sds == s[d].sdeltas
         IN IF a.err # NoErr THEN [value |-> ZeroValue, ok |-> FALSE, err |-> a.err]
            ELSE IF ~a.ok THEN [value |-> ZeroValue, ok |-> FALSE, err |-> ErrNoStorage]
            ELSE IF st \in DOMAIN sds
                 THEN IF key \in DOMAIN sds[st].kvCow
                      THEN [value |-> sds[st].kvCow[key].new,
                            ok |-> sds[st].kvCow[key].newExists,
                            err |-> NoErr]
                      ELSE IF sds[st].action = remainAllocAction
                           THEN getKey(b, s, d - 1, st, key)
                           ELSE [value |-> ZeroValue, ok |-> FALSE, err |-> NoErr]
                 ELSE getKey(b, s, d - 1, st, key)

---------------------------------------------------------------------------
(* Storage deltas *)

\* Mutant: the nodes of the chain share one sdeltas map
SetStorageDeltaShared(s, st, lsd) ==
    [d \in 1..Len(s) |-> [s[d] EXCEPT !.sdeltas = MapPut(@, st, lsd)]]

\* The receiver cb of a method is the last node of the chain; a method
\* that changes cb's storage delta for st stores it there
SetStorageDelta(s, st, lsd) ==
    [s EXCEPT ![Len(s)].sdeltas = MapPut(@, st, lsd)]

ensureStorageDelta(b, s, st, defaultAction) ==
    LET d == Len(s)
        counts == getStorageCounts(b, s, d, st)
        maxCounts == getStorageLimits(b, s, d, st)
    IN IF st \in DOMAIN s[d].sdeltas THEN [stack |-> s, err |-> NoErr]
       ELSE IF counts.err # NoErr THEN [stack |-> s, err |-> counts.err]
       ELSE IF maxCounts.err # NoErr THEN [stack |-> s, err |-> maxCounts.err]
       ELSE [stack |-> SetStorageDelta(s, st,
                           [action |-> defaultAction,
                            kvCow |-> EmptyMap,
                            counts |-> counts.schema,
                            maxCounts |-> maxCounts.schema]),
             err |-> NoErr]

\* The counts of lsd after the decrement for the value before (bv, bok)
DecCounts(lsd, bv) ==
    IF bv.Type = TealBytesType
    THEN [lsd EXCEPT !.counts.NumByteSlice = Dec64(@)]
    ELSE [lsd EXCEPT !.counts.NumUint = Dec64(@)]

IncCounts(lsd, av) ==
    IF av.Type = TealBytesType
    THEN [lsd EXCEPT !.counts.NumByteSlice = Inc64(@)]
    ELSE [lsd EXCEPT !.counts.NumUint = Inc64(@)]

KnownType(v) == v.Type \in {TealBytesType, TealUintType}

updateCounts(lsd, bv, bok, av, aok) ==
    LET l1 == IF bok /\ KnownType(bv) THEN DecCounts(lsd, bv) ELSE lsd
        l2 == IF aok /\ KnownType(av) THEN IncCounts(l1, av) ELSE l1
    IN IF bok /\ ~KnownType(bv) THEN [lsd |-> lsd, err |-> ErrBadType]
       ELSE IF aok /\ ~KnownType(av) THEN [lsd |-> l1, err |-> ErrBadType]
       ELSE [lsd |-> l2, err |-> NoErr]

checkCounts(lsd) ==
    IF Gt64(lsd.counts.NumUint, lsd.maxCounts.NumUint) THEN ErrSchemaExceeded
    ELSE IF Gt64(lsd.counts.NumByteSlice, lsd.maxCounts.NumByteSlice)
         THEN ErrSchemaExceeded
         ELSE NoErr

\* Mutant: every write records the value read before it as old, also when
\* the key has an entry
ValueDeltaForRecordsAgain(lsd, key, old) ==
    [old |-> old.value, oldExists |-> old.ok,
     new |-> ZeroValue, newExists |-> FALSE]

\* The value delta SetKey and DelKey start from: the entry of the key, or a
\* new one that records the value read before the write
ValueDeltaFor(lsd, key, old) ==
    IF key \in DOMAIN lsd.kvCow THEN lsd.kvCow[key]
    ELSE [old |-> old.value, oldExists |-> old.ok,
          new |-> ZeroValue, newExists |-> FALSE]

\* Mutant: the allocation is checked before the lengths
SetKeyAllocatedFirst(b, s, st, key, value) ==
    LET d == Len(s)
        a == allocated(b, s, d, st)
        old == getKey(b, s, d, st, key)
        e == ensureStorageDelta(b, s, st, remainAllocAction)
        lsd == e.stack[d].sdeltas[st]
        vdelta == [ValueDeltaFor(lsd, key, old) EXCEPT !.new = value, !.newExists = TRUE]
        lsd1 == [lsd EXCEPT !.kvCow = MapPut(@, key, vdelta)]
        s1 == SetStorageDelta(e.stack, st, lsd1)
        new == getKey(b, s1, d, st, key)
        u == updateCounts(lsd1, old.value, old.ok, new.value, new.ok)
        s2 == SetStorageDelta(s1, st, u.lsd)
    IN IF a.err # NoErr THEN [stack |-> s, err |-> a.err]
       ELSE IF ~a.ok THEN [stack |-> s, err |-> ErrNoStorage]
       ELSE IF Len(key) > MaxAppKeyLen THEN [stack |-> s, err |-> ErrKeyTooLong]
       ELSE IF value.Type = TealBytesType /\ Len(value.Bytes) > MaxAppBytesValueLen
       THEN [stack |-> s, err |-> ErrValueTooLong]
       ELSE IF old.err # NoErr THEN [stack |-> s, err |-> old.err]
       ELSE IF e.err # NoErr THEN [stack |-> s, err |-> e.err]
       ELSE IF new.err # NoErr THEN [stack |-> s1, err |-> new.err]
       ELSE IF u.err # NoErr THEN [stack |-> s2, err |-> u.err]
       ELSE [stack |-> s2, err |-> checkCounts(u.lsd)]

SetKey(b, s, st, key, value) ==
    LET d == Len(s)
        a == allocated(b, s, d, st)
        old == getKey(b, s, d, st, key)
        e == ensureStorageDelta(b, s, st, remainAllocAction)
        lsd == e.stack[d].sdeltas[st]
        vdelta == [ValueDeltaFor(lsd, key, old) EXCEPT !.new = value, !.newExists = TRUE]
        lsd1 == [lsd EXCEPT !.kvCow = MapPut(@, key, vdelta)]
        s1 == SetStorageDelta(e.stack, st, lsd1)
        new == getKey(b, s1, d, st, key)
        u == updateCounts(lsd1, old.value, old.ok, new.value, new.ok)
        s2 == SetStorageDelta(s1, st, u.lsd)
    IN IF Len(key) > MaxAppKeyLen THEN [stack |-> s, err |-> ErrKeyTooLong]
       ELSE IF value.Type = TealBytesType /\ Len(value.Bytes) > MaxAppBytesValueLen
       THEN [stack |-> s, err |-> ErrValueTooLong]
       ELSE IF a.err # NoErr THEN [stack |-> s, err |-> a.err]
       ELSE IF ~a.ok THEN [stack |-> s, err |-> ErrNoStorage]
       ELSE IF old.err # NoErr THEN [stack |-> s, err |-> old.err]
       ELSE IF e.err # NoErr THEN [stack |-> s, err |-> e.err]
       ELSE IF new.err # NoErr THEN [stack |-> s1, err |-> new.err]
       ELSE IF u.err # NoErr THEN [stack |-> s2, err |-> u.err]
       ELSE [stack |-> s2, err |-> checkCounts(u.lsd)]

\* Mutant: the deletion removes the key's entry from kvCow instead of
\* recording it
DelKeyDropsEntry(b, s, st, key) ==
    LET d == Len(s)
        a == allocated(b, s, d, st)
        old == getKey(b, s, d, st, key)
        e == ensureStorageDelta(b, s, st, remainAllocAction)
        lsd == e.stack[d].sdeltas[st]
        lsd1 == [lsd EXCEPT !.kvCow = [k \in (DOMAIN lsd.kvCow) \ {key} |-> lsd.kvCow[k]]]
        s1 == SetStorageDelta(e.stack, st, lsd1)
        new == getKey(b, s1, d, st, key)
        u == updateCounts(lsd1, old.value, old.ok, new.value, new.ok)
        s2 == SetStorageDelta(s1, st, u.lsd)
    IN IF a.err # NoErr THEN [stack |-> s, err |-> a.err]
       ELSE IF ~a.ok THEN [stack |-> s, err |-> ErrNoStorage]
       ELSE IF old.err # NoErr THEN [stack |-> s, err |-> old.err]
       ELSE IF e.err # NoErr THEN [stack |-> s, err |-> NoErr]
       ELSE IF new.err # NoErr THEN [stack |-> s1, err |-> new.err]
       ELSE IF u.err # NoErr THEN [stack |-> s2, err |-> u.err]
       ELSE [stack |-> s2, err |-> NoErr]

DelKey(b, s, st, key) ==
    LET d == Len(s)
        a == allocated(b, s, d, st)
        old == getKey(b, s, d, st, key)
        e == ensureStorageDelta(b, s, st, remainAllocAction)
        lsd == e.stack[d].sdeltas[st]
        vdelta == [ValueDeltaFor(lsd, key, old) EXCEPT !.new = ZeroValue, !.newExists = FALSE]
        lsd1 == [lsd EXCEPT !.kvCow = MapPut(@, key, vdelta)]
        s1 == SetStorageDelta(e.stack, st, lsd1)
        new == getKey(b, s1, d, st, key)
        u == updateCounts(lsd1, old.value, old.ok, new.value, new.ok)
        s2 == SetStorageDelta(s1, st, u.lsd)
    IN IF a.err # NoErr THEN [stack |-> s, err |-> a.err]
       ELSE IF ~a.ok THEN [stack |-> s, err |-> ErrNoStorage]
       ELSE IF old.err # NoErr THEN [stack |-> s, err |-> old.err]
       ELSE IF e.err # NoErr THEN [stack |-> s, err |-> NoErr]
       ELSE IF new.err # NoErr THEN [stack |-> s1, err |-> new.err]
       ELSE IF u.err # NoErr THEN [stack |-> s2, err |-> u.err]
       ELSE [stack |-> s2, err |-> NoErr]

\* Mutant: only the node's own storage delta tells whether the storage is
\* allocated
AllocateChecksOwnDelta(b, s, st, space) ==
    LET d == Len(s)
        own == st \in DOMAIN s[d].sdeltas /\ s[d].sdeltas[st].action = allocAction
        e == ensureStorageDelta(b, s, st, allocAction)
        lsd == e.stack[d].sdeltas[st]
    IN IF own THEN [stack |-> s, err |-> ErrAlreadyStorage]
       ELSE IF e.err # NoErr THEN [stack |-> s, err |-> e.err]
       ELSE [stack |-> SetStorageDelta(e.stack, st,
                           [lsd EXCEPT !.action = allocAction, !.maxCounts = space]),
             err |-> NoErr]

\* Mutant: the schema of the allocation is not stored
AllocateIgnoresSpace(b, s, st, space) ==
    LET d == Len(s)
        a == allocated(b, s, d, st)
        e == ensureStorageDelta(b, s, st, allocAction)
        lsd == e.stack[d].sdeltas[st]
    IN IF a.err # NoErr THEN [stack |-> s, err |-> a.err]
       ELSE IF a.ok THEN [stack |-> s, err |-> ErrAlreadyStorage]
       ELSE IF e.err # NoErr THEN [stack |-> s, err |-> e.err]
       ELSE [stack |-> SetStorageDelta(e.stack, st, [lsd EXCEPT !.action = allocAction]),
             err |-> NoErr]

Allocate(b, s, st, space) ==
    LET d == Len(s)
        a == allocated(b, s, d, st)
        e == ensureStorageDelta(b, s, st, allocAction)
        lsd == e.stack[d].sdeltas[st]
    IN IF a.err # NoErr THEN [stack |-> s, err |-> a.err]
       ELSE IF a.ok THEN [stack |-> s, err |-> ErrAlreadyStorage]
       ELSE IF e.err # NoErr THEN [stack |-> s, err |-> e.err]
       ELSE [stack |-> SetStorageDelta(e.stack, st,
                           [lsd EXCEPT !.action = allocAction, !.maxCounts = space]),
             err |-> NoErr]

\* Mutant: the storage delta is ensured before the allocation is checked
DeallocateEnsuresFirst(b, s, st) ==
    LET d == Len(s)
        a == allocated(b, s, d, st)
        e == ensureStorageDelta(b, s, st, deallocAction)
        lsd == e.stack[d].sdeltas[st]
    IN IF e.err # NoErr THEN [stack |-> s, err |-> e.err]
       ELSE IF a.err # NoErr THEN [stack |-> e.stack, err |-> a.err]
       ELSE IF ~a.ok THEN [stack |-> e.stack, err |-> ErrNoStorage]
       ELSE [stack |-> SetStorageDelta(e.stack, st,
                           [lsd EXCEPT !.action = deallocAction,
                                       !.counts = ZeroSchema,
                                       !.maxCounts = ZeroSchema,
                                       !.kvCow = EmptyMap]),
             err |-> NoErr]

\* Mutant: the deallocation keeps the keys and the counts of the storage delta
DeallocateKeepsKv(b, s, st) ==
    LET d == Len(s)
        a == allocated(b, s, d, st)
        e == ensureStorageDelta(b, s, st, deallocAction)
        lsd == e.stack[d].sdeltas[st]
    IN IF a.err # NoErr THEN [stack |-> s, err |-> a.err]
       ELSE IF ~a.ok THEN [stack |-> s, err |-> ErrNoStorage]
       ELSE IF e.err # NoErr THEN [stack |-> s, err |-> e.err]
       ELSE [stack |-> SetStorageDelta(e.stack, st,
                           [lsd EXCEPT !.action = deallocAction,
                                       !.maxCounts = ZeroSchema]),
             err |-> NoErr]

Deallocate(b, s, st) ==
    LET d == Len(s)
        a == allocated(b, s, d, st)
        e == ensureStorageDelta(b, s, st, deallocAction)
        lsd == e.stack[d].sdeltas[st]
    IN IF a.err # NoErr THEN [stack |-> s, err |-> a.err]
       ELSE IF ~a.ok THEN [stack |-> s, err |-> ErrNoStorage]
       ELSE IF e.err # NoErr THEN [stack |-> s, err |-> e.err]
       ELSE [stack |-> SetStorageDelta(e.stack, st,
                           [lsd EXCEPT !.action = deallocAction,
                                       !.counts = ZeroSchema,
                                       !.maxCounts = ZeroSchema,
                                       !.kvCow = EmptyMap]),
             err |-> NoErr]

\* Mutant: the replace branch leaves the parent's maxCounts
applyChildKeepsMaxCounts(lsd, child) ==
    IF child.action # remainAllocAction
    THEN [action |-> child.action, kvCow |-> child.kvCow,
          counts |-> child.counts, maxCounts |-> lsd.maxCounts]
    ELSE [lsd EXCEPT
            !.kvCow = [key \in (DOMAIN lsd.kvCow) \cup (DOMAIN child.kvCow) |->
                         IF key \in DOMAIN lsd.kvCow THEN lsd.kvCow[key]
                         ELSE child.kvCow[key]],
            !.counts = child.counts]

\* Mutant: the merge branch takes the child's whole entry for every key of
\* the child
applyChildTakesChildEntry(lsd, child) ==
    IF child.action # remainAllocAction
    THEN [action |-> child.action, kvCow |-> child.kvCow,
          counts |-> child.counts, maxCounts |-> child.maxCounts]
    ELSE [lsd EXCEPT
            !.kvCow = [key \in (DOMAIN lsd.kvCow) \cup (DOMAIN child.kvCow) |->
                         IF key \in DOMAIN child.kvCow THEN child.kvCow[key]
                         ELSE lsd.kvCow[key]],
            !.counts = child.counts]

\* Mutant: the merge branch leaves the parent's counts
applyChildKeepsCounts(lsd, child) ==
    IF child.action # remainAllocAction
    THEN [action |-> child.action, kvCow |-> child.kvCow,
          counts |-> child.counts, maxCounts |-> child.maxCounts]
    ELSE [lsd EXCEPT
            !.kvCow = [key \in (DOMAIN lsd.kvCow) \cup (DOMAIN child.kvCow) |->
                         IF key \in DOMAIN lsd.kvCow THEN lsd.kvCow[key]
                         ELSE child.kvCow[key]]]

\* lsd.applyChild(child): the parent's storage delta after the call.  In the
\* merge branch the entry of a key the parent already holds is copied into
\* the local `delta`, which is updated and never stored back, so the map
\* keeps the parent's entry.
applyChild(lsd, child) ==
    IF child.action # remainAllocAction
    THEN [action |-> child.action, kvCow |-> child.kvCow,
          counts |-> child.counts, maxCounts |-> child.maxCounts]
    ELSE [lsd EXCEPT
            !.kvCow = [key \in (DOMAIN lsd.kvCow) \cup (DOMAIN child.kvCow) |->
                         IF key \in DOMAIN lsd.kvCow THEN lsd.kvCow[key]
                         ELSE child.kvCow[key]],
            !.counts = child.counts]

\* The sanity check that ends applyChild
applyChildPanics(lsd, child) ==
    LET r == applyChild(lsd, child)
    IN r.action = deallocAction /\ DOMAIN r.kvCow # {}

---------------------------------------------------------------------------
(* Serialization of the value deltas: basics.ValueDelta, basics.StateDelta *)

SetBytesAction == "SET_BYTES"
SetUintAction == "SET_UINT"
DeleteAction == "DELETE"

\* The zero basics.ValueDelta
ZeroValueDelta == [Action |-> "", Bytes |-> <<>>, Uint |-> 0]

\* Mutant: old and new are compared by their bytes and number, not by their
\* type
valueDeltaSerializeIgnoresType(vd) ==
    IF ~vd.newExists
    THEN IF vd.oldExists
         THEN [vdelta |-> [ZeroValueDelta EXCEPT !.Action = DeleteAction], ok |-> TRUE]
         ELSE [vdelta |-> ZeroValueDelta, ok |-> FALSE]
    ELSE IF vd.oldExists /\ vd.old.Bytes = vd.new.Bytes /\ vd.old.Uint = vd.new.Uint
    THEN [vdelta |-> ZeroValueDelta, ok |-> FALSE]
    ELSE IF vd.new.Type = TealBytesType
    THEN [vdelta |-> [ZeroValueDelta EXCEPT !.Action = SetBytesAction,
                                            !.Bytes = vd.new.Bytes],
          ok |-> TRUE]
    ELSE [vdelta |-> [ZeroValueDelta EXCEPT !.Action = SetUintAction,
                                            !.Uint = vd.new.Uint],
          ok |-> TRUE]

\* vd.serialize(): the wire delta and whether it is to be emitted
valueDeltaSerialize(vd) ==
    IF ~vd.newExists
    THEN IF vd.oldExists
         THEN [vdelta |-> [ZeroValueDelta EXCEPT !.Action = DeleteAction], ok |-> TRUE]
         ELSE [vdelta |-> ZeroValueDelta, ok |-> FALSE]
    ELSE IF vd.oldExists /\ vd.old = vd.new
    THEN [vdelta |-> ZeroValueDelta, ok |-> FALSE]
    ELSE IF vd.new.Type = TealBytesType
    THEN [vdelta |-> [ZeroValueDelta EXCEPT !.Action = SetBytesAction,
                                            !.Bytes = vd.new.Bytes],
          ok |-> TRUE]
    ELSE [vdelta |-> [ZeroValueDelta EXCEPT !.Action = SetUintAction,
                                            !.Uint = vd.new.Uint],
          ok |-> TRUE]

\* sd.serialize(): the wire deltas of the keys whose value delta is emitted
stateDeltaSerialize(sd) ==
    [key \in { k \in DOMAIN sd : valueDeltaSerialize(sd[k]).ok } |->
        valueDeltaSerialize(sd[key]).vdelta]

---------------------------------------------------------------------------
(* Accounts, transactions and creatables *)

CurRound == 10          \* cb.mods.Hdr.Round of every node of the chain

SupportTransactionLeases == TRUE    \* cb.proto.SupportTransactionLeases

ZeroLease == <<>>

NumTxns == 2           \* transaction ids 1..NumTxns
NumAccountData == 2    \* account data 1..NumAccountData

AccountDatas == 1..NumAccountData

\* ledgercore.PersistedAccountData: the account data and the part that
\* describes the row the base read it from
BasePad(addr) == [AccountData |-> 0, row |-> addr]

Txns ==
    { [txid |-> i, Sender |-> "A1", Lease |-> l, LastValid |-> CurRound + i] :
        i \in 1..NumTxns, l \in {ZeroLease, <<1>>} }

CreatableIndexes == {1}

CreatableTypes == {"asset", "app"}

\* A nil *basics.CreatableLocator
Nil == [Index |-> 0, Type |-> "nil", Creator |-> ""]

Locators ==
    { [Index |-> i, Type |-> t, Creator |-> "A1"] :
        i \in CreatableIndexes, t \in CreatableTypes }

\* A Go map of basics.AccountData: nil, or the entries it holds
NilMap == [nil |-> TRUE, m |-> EmptyMap]

GoMap(m) == [nil |-> FALSE, m |-> m]

\* basics.AccountData with the four maps lookupCreatableData reads
CreatableData(assetParams, assets, appParams, appLocalStates) ==
    [AssetParams |-> assetParams, Assets |-> assets,
     AppParams |-> appParams, AppLocalStates |-> appLocalStates]

\* The zero ledgercore.PersistedAccountData
ZeroPad == [AccountData |-> CreatableData(NilMap, NilMap, NilMap, NilMap), row |-> ""]

baseLookup(b, addr) ==
    IF "lookup" \in b.fail THEN [pad |-> ZeroPad, err |-> ErrParentIO]
    ELSE [pad |-> b.accts[addr], err |-> NoErr]

baseLookupCreatableData(b, addr, cidx, ctype, global, local) ==
    IF "lookupCreatableData" \in b.fail THEN [pad |-> ZeroPad, err |-> ErrParentIO]
    ELSE [pad |-> b.accts[addr], err |-> NoErr]

baseCheckDup(b, txid, txl) ==
    IF txid \in DOMAIN b.txids THEN "TransactionInLedgerError"
    ELSE IF txl.Lease # ZeroLease /\ txl \in DOMAIN b.txleases
              /\ CurRound <= b.txleases[txl]
         THEN "LeaseInLedgerError"
         ELSE NoErr

baseTxnCounter(b) == b.txnCounter

baseGetCreator(b, cidx, ctype) ==
    IF cidx \in DOMAIN b.creators /\ b.creators[cidx].Ctype = ctype
    THEN [creator |-> b.creators[cidx].Creator, ok |-> TRUE, err |-> NoErr]
    ELSE [creator |-> "", ok |-> FALSE, err |-> NoErr]

baseCompactCertNext(b) == b.compactCertNext

\* Mutant: an entry that is no creation of the type is passed over and the
\* parent is asked
RECURSIVE getCreatorAsksOn(_, _, _, _, _)
getCreatorAsksOn(b, s, d, cidx, ctype) ==
    IF d = 0 THEN baseGetCreator(b, cidx, ctype)
    ELSE LET c == s[d].Creatables IN
         IF cidx \in DOMAIN c /\ c[cidx].Created /\ c[cidx].Ctype = ctype
         THEN [creator |-> c[cidx].Creator, ok |-> TRUE, err |-> NoErr]
         ELSE getCreatorAsksOn(b, s, d - 1, cidx, ctype)

RECURSIVE getCreator(_, _, _, _, _)
getCreator(b, s, d, cidx, ctype) ==
    IF d = 0 THEN baseGetCreator(b, cidx, ctype)
    ELSE LET c == s[d].Creatables IN
         IF cidx \in DOMAIN c
         THEN IF c[cidx].Created /\ c[cidx].Ctype = ctype
              THEN [creator |-> c[cidx].Creator, ok |-> TRUE, err |-> NoErr]
              ELSE [creator |-> "", ok |-> FALSE, err |-> NoErr]
         ELSE getCreator(b, s, d - 1, cidx, ctype)

\* Mutant: lookup saves nothing in the getPadCache
RECURSIVE lookupSavesNothing(_, _, _, _)
lookupSavesNothing(b, s, d, addr) ==
    IF d = 0 THEN [pad |-> baseLookup(b, addr).pad, err |-> baseLookup(b, addr).err,
                   stack |-> s]
    ELSE IF addr \in DOMAIN s[d].Accts
         THEN [pad |-> s[d].Accts[addr], err |-> NoErr, stack |-> s]
         ELSE lookupSavesNothing(b, s, d - 1, addr)

\* cb.lookup(addr) for the node at d: the record and the chain after the
\* call, which saves the parent's answer in the getPadCache of every node it
\* went through
RECURSIVE lookup(_, _, _, _)
lookup(b, s, d, addr) ==
    IF d = 0 THEN [pad |-> baseLookup(b, addr).pad, err |-> baseLookup(b, addr).err,
                   stack |-> s]
    ELSE IF addr \in DOMAIN s[d].Accts
         THEN [pad |-> s[d].Accts[addr], err |-> NoErr, stack |-> s]
         ELSE LET r == lookup(b, s, d - 1, addr) IN
              IF r.err # NoErr THEN r
              ELSE [pad |-> r.pad, err |-> NoErr,
                    stack |-> [r.stack EXCEPT ![d].getPadCache = MapPut(@, addr, r.pad)]]

\* The map of the account data that holds the parameters (global) or the
\* holdings and local states (local) of the creatables of a type
GlobalField(ctype) == IF ctype = "asset" THEN "AssetParams" ELSE "AppParams"

LocalField(ctype) == IF ctype = "asset" THEN "Assets" ELSE "AppLocalStates"

\* _, ok = m[cidx]
Has(gm, cidx) == cidx \in DOMAIN gm.m

\* lookupCreatableData answers from cb.mods.Accts: the address is modified
\* and the record holds every part that is asked for
AnsweredByNode(n, addr, cidx, ctype, global, local) ==
    /\ addr \in DOMAIN n.Accts
    /\ LET ad == n.Accts[addr].AccountData
           globalExist == global /\ Has(ad[GlobalField(ctype)], cidx)
           localExist == local /\ Has(ad[LocalField(ctype)], cidx)
       IN \/ global /\ globalExist /\ ~local
          \/ local /\ localExist /\ ~global
          \/ global /\ globalExist /\ local /\ localExist

\* m[cidx] = from[cidx] when from holds cidx and the part is asked for; the
\* assignment panics when m is nil
StoreFrom(gm, from, cidx, asked) ==
    IF asked /\ Has(from, cidx) /\ ~gm.nil THEN GoMap(MapPut(gm.m, cidx, from.m[cidx]))
    ELSE gm

StorePanics(gm, from, cidx, asked) == asked /\ Has(from, cidx) /\ gm.nil

\* lookupCreatableData after the call to the parent returned r. The maps of
\* pad are the maps of the record in cb.mods.Accts, so what is written into
\* pad is written into that record as well
AfterParentData(d, addr, cidx, ctype, global, local, r) ==
    IF r.err = ErrPanic THEN r
    ELSE IF addr \notin DOMAIN r.stack[d].Accts
    THEN [pad |-> r.pad, err |-> r.err,
          stack |-> [r.stack EXCEPT ![d].getPadCache = MapPut(@, addr, r.pad)]]
    ELSE LET pad == r.stack[d].Accts[addr]
             gf == GlobalField(ctype)
             lf == LocalField(ctype)
             from == r.pad.AccountData
             withGlobal == [pad EXCEPT !.AccountData[gf] =
                                StoreFrom(@, from[gf], cidx, global)]
             merged == [withGlobal EXCEPT !.AccountData[lf] =
                                StoreFrom(@, from[lf], cidx, local)]
         IN IF StorePanics(pad.AccountData[gf], from[gf], cidx, global)
            THEN [pad |-> ZeroPad, err |-> ErrPanic, stack |-> r.stack]
            ELSE IF StorePanics(pad.AccountData[lf], from[lf], cidx, local)
            THEN [pad |-> ZeroPad, err |-> ErrPanic,
                  stack |-> [r.stack EXCEPT ![d].Accts = MapPut(@, addr, withGlobal)]]
            ELSE [pad |-> merged, err |-> NoErr,
                  stack |-> [r.stack EXCEPT ![d].Accts = MapPut(@, addr, merged),
                                            ![d].getPadCache = MapPut(@, addr, merged)]]

\* cb.lookupCreatableData(addr, cidx, ctype, global, local) for the node at
\* d: the record, the error and the chain after the call
RECURSIVE lookupCreatableData(_, _, _, _, _, _, _, _)
lookupCreatableData(b, s, d, addr, cidx, ctype, global, local) ==
    IF d = 0
    THEN [pad |-> baseLookupCreatableData(b, addr, cidx, ctype, global, local).pad,
          err |-> baseLookupCreatableData(b, addr, cidx, ctype, global, local).err,
          stack |-> s]
    ELSE IF (~global /\ ~local) \/ ctype \notin {"asset", "app"}
    THEN [pad |-> ZeroPad, err |-> ErrPanic, stack |-> s]
    ELSE IF AnsweredByNode(s[d], addr, cidx, ctype, global, local)
    THEN [pad |-> s[d].Accts[addr], err |-> NoErr, stack |-> s]
    ELSE AfterParentData(d, addr, cidx, ctype, global, local,
                         lookupCreatableData(b, s, d - 1, addr, cidx, ctype, global, local))

\* Mutant: checkDup looks at the txids of the node only when the
\* transaction holds a lease
RECURSIVE checkDupLeasedOnly(_, _, _, _, _)
checkDupLeasedOnly(b, s, d, txid, txl) ==
    IF d = 0 THEN baseCheckDup(b, txid, txl)
    ELSE IF txl.Lease # ZeroLease /\ txid \in DOMAIN s[d].Txids
         THEN "TransactionInLedgerError"
    ELSE checkDupLeasedOnly(b, s, d - 1, txid, txl)

RECURSIVE checkDup(_, _, _, _, _)
checkDup(b, s, d, txid, txl) ==
    IF d = 0 THEN baseCheckDup(b, txid, txl)
    ELSE IF txid \in DOMAIN s[d].Txids THEN "TransactionInLedgerError"
    ELSE IF SupportTransactionLeases /\ txl.Lease # ZeroLease
              /\ txl \in DOMAIN s[d].Txleases /\ CurRound <= s[d].Txleases[txl]
         THEN "LeaseInLedgerError"
         ELSE checkDup(b, s, d - 1, txid, txl)

\* Mutant: txnCounter counts the transactions of the node itself only
RECURSIVE txnCounterOwn(_, _, _)
txnCounterOwn(b, s, d) ==
    IF d = 0 THEN baseTxnCounter(b)
    ELSE baseTxnCounter(b) + Cardinality(DOMAIN s[d].Txids)

RECURSIVE txnCounter(_, _, _)
txnCounter(b, s, d) ==
    IF d = 0 THEN baseTxnCounter(b)
    ELSE txnCounter(b, s, d - 1) + Cardinality(DOMAIN s[d].Txids)

RECURSIVE compactCertNext(_, _, _)
compactCertNext(b, s, d) ==
    IF d = 0 THEN baseCompactCertNext(b)
    ELSE IF s[d].CompactCertNext # 0 THEN s[d].CompactCertNext
    ELSE compactCertNext(b, s, d - 1)

\* The creatable map of the node after put's two optional locators
putCreatables(c, newCreatable, deletedCreatable) ==
    LET c1 == IF newCreatable # Nil
              THEN MapPut(c, newCreatable.Index,
                          [Ctype |-> newCreatable.Type,
                           Creator |-> newCreatable.Creator, Created |-> TRUE])
              ELSE c
    IN IF deletedCreatable # Nil
       THEN MapPut(c1, deletedCreatable.Index,
                   [Ctype |-> deletedCreatable.Type,
                    Creator |-> deletedCreatable.Creator, Created |-> FALSE])
       ELSE c1

put(s, addr, new, newCreatable, deletedCreatable) ==
    LET d == Len(s) IN
    IF addr \notin DOMAIN s[d].getPadCache THEN [stack |-> s, err |-> ErrPanic]
    ELSE [stack |-> [s EXCEPT
                       ![d].Accts = MapPut(@, addr,
                                      [s[d].getPadCache[addr] EXCEPT !.AccountData = new]),
                       ![d].Creatables = putCreatables(@, newCreatable, deletedCreatable)],
          err |-> NoErr]

addTx(s, txn) ==
    [s EXCEPT ![Len(s)].Txids = MapPut(@, txn.txid, txn.LastValid),
              ![Len(s)].Txleases = MapPut(@, [Sender |-> txn.Sender, Lease |-> txn.Lease],
                                          txn.LastValid)]

---------------------------------------------------------------------------
(* Nodes, child and commitToParent *)

\* A node with empty modifications; ccn is the CompactCertNext that
\* MakeStateDelta is given
EmptyNode(ccn) ==
    [sdeltas |-> EmptyMap,
     Accts |-> EmptyMap,
     Txids |-> EmptyMap,
     Txleases |-> EmptyMap,
     Creatables |-> EmptyMap,
     CompactCertNext |-> ccn,
     getPadCache |-> EmptyMap]

\* cb.setCompactCertNext(rnd) for the last node cb of the chain
setCompactCertNext(s, rnd) == [s EXCEPT ![Len(s)].CompactCertNext = rnd]

\* Mutant: the child starts with the transactions of the node it is made from
childCopiesTxids(s) ==
    Append(s, [EmptyNode(s[Len(s)].CompactCertNext) EXCEPT !.Txids = s[Len(s)].Txids])

child(s) == Append(s, EmptyNode(s[Len(s)].CompactCertNext))

\* Every entry of the map ch written over the map parent
MergeMap(parent, ch) ==
    [k \in (DOMAIN parent) \cup (DOMAIN ch) |->
        IF k \in DOMAIN ch THEN ch[k] ELSE parent[k]]

\* The storage deltas of the parent after the loop over the child's
commitStorage(parent, ch) ==
    [st \in (DOMAIN parent) \cup (DOMAIN ch) |->
        IF st \notin DOMAIN ch THEN parent[st]
        ELSE IF st \in DOMAIN parent THEN applyChild(parent[st], ch[st])
        ELSE ch[st]]

commitPanics(parent, ch) ==
    \E st \in (DOMAIN parent) \cap (DOMAIN ch) : applyChildPanics(parent[st], ch[st])

\* Mutant: an account record of the parent is kept when the child holds one
\* of the same address
commitToParentKeepsAccts(s) ==
    LET d == Len(s)
        cb == s[d]
        p == s[d - 1]
        merged == [sdeltas |-> commitStorage(p.sdeltas, cb.sdeltas),
                   Accts |-> MergeMap(cb.Accts, p.Accts),
                   Txids |-> MergeMap(p.Txids, cb.Txids),
                   Txleases |-> MergeMap(p.Txleases, cb.Txleases),
                   Creatables |-> MergeMap(p.Creatables, cb.Creatables),
                   CompactCertNext |-> cb.CompactCertNext,
                   getPadCache |-> MergeMap(p.getPadCache, cb.getPadCache)]
    IN [stack |-> SubSeq(s, 1, d - 2) \o <<merged>>,
        err |-> IF commitPanics(p.sdeltas, cb.sdeltas) THEN ErrPanic ELSE NoErr]

\* cb.commitToParent() for the last node cb of the chain, which then leaves
\* the chain
commitToParent(s) ==
    LET d == Len(s)
        cb == s[d]
        p == s[d - 1]
        merged == [sdeltas |-> commitStorage(p.sdeltas, cb.sdeltas),
                   Accts |-> MergeMap(p.Accts, cb.Accts),
                   Txids |-> MergeMap(p.Txids, cb.Txids),
                   Txleases |-> MergeMap(p.Txleases, cb.Txleases),
                   Creatables |-> MergeMap(p.Creatables, cb.Creatables),
                   CompactCertNext |-> cb.CompactCertNext,
                   getPadCache |-> MergeMap(p.getPadCache, cb.getPadCache)]
    IN [stack |-> SubSeq(s, 1, d - 2) \o <<merged>>,
        err |-> IF commitPanics(p.sdeltas, cb.sdeltas) THEN ErrPanic ELSE NoErr]

---------------------------------------------------------------------------
(* BuildDelta *)

ErrCrossApp == "CROSS_APP_DELTA"
ErrMultipleGlobal == "MULTIPLE_GLOBAL_DELTA"
ErrInvalidAccount == "INVALID_ACCOUNT_REFERENCE"

\* The zero basics.EvalDelta; a map without entries stands for a nil map too
ZeroEvalDelta == [GlobalDelta |-> EmptyMap, LocalDeltas |-> EmptyMap]

\* The least i with accounts[i] = target
FirstIndex(accounts, target) ==
    CHOOSE i \in 1..Len(accounts) :
       /\ accounts[i] = target
       /\ \A j \in 1..(i - 1) : accounts[j] # target

\* txn.IndexByAddress(target, sender): 0 for the sender, otherwise the
\* offset of the address in the account array that follows the sender
IndexByAddress(txn, target, sender) ==
    IF target = sender THEN [idx |-> 0, err |-> NoErr]
    ELSE IF \E i \in 1..Len(txn.Accounts) : txn.Accounts[i] = target
    THEN [idx |-> FirstIndex(txn.Accounts, target), err |-> NoErr]
    ELSE [idx |-> 0, err |-> ErrInvalidAccount]

\* The storages the two nested loops of BuildDelta may take next, when rest
\* are the storages not yet visited and cur is the address of the inner loop
\* in progress: a Go map is ranged over in any order, and the inner loop ends
\* before the outer one goes on
NextInRange(rest, cur) ==
    IF \E st \in rest : st.addr = cur THEN { st \in rest : st.addr = cur }
    ELSE rest

\* Mutant: a second global storage delta overwrites the first
BuildDeltaVisitManyGlobals(sds, st, aidx, txn, acc) ==
    LET ix == IndexByAddress(txn, st.addr, txn.Sender) IN
    IF st.aidx # aidx THEN [acc EXCEPT !.evalDelta = ZeroEvalDelta, !.err = ErrCrossApp]
    ELSE IF st.global
    THEN [acc EXCEPT !.evalDelta.GlobalDelta = stateDeltaSerialize(sds[st].kvCow),
                     !.foundGlobal = TRUE]
    ELSE IF ix.err # NoErr THEN [acc EXCEPT !.evalDelta = ZeroEvalDelta, !.err = ix.err]
    ELSE [acc EXCEPT !.evalDelta.LocalDeltas =
                         MapPut(@, ix.idx, stateDeltaSerialize(sds[st].kvCow))]

\* Mutant: an address that has no index in the transaction is given the
\* index 0
BuildDeltaVisitNoIndexError(sds, st, aidx, txn, acc) ==
    LET ix == IndexByAddress(txn, st.addr, txn.Sender) IN
    IF st.aidx # aidx THEN [acc EXCEPT !.evalDelta = ZeroEvalDelta, !.err = ErrCrossApp]
    ELSE IF st.global
    THEN IF acc.foundGlobal
         THEN [acc EXCEPT !.evalDelta = ZeroEvalDelta, !.err = ErrMultipleGlobal]
         ELSE [acc EXCEPT !.evalDelta.GlobalDelta = stateDeltaSerialize(sds[st].kvCow),
                          !.foundGlobal = TRUE]
    ELSE [acc EXCEPT !.evalDelta.LocalDeltas =
                         MapPut(@, ix.idx, stateDeltaSerialize(sds[st].kvCow))]

\* One pass of the loop body of BuildDelta for the storage st
BuildDeltaVisit(sds, st, aidx, txn, acc) ==
    LET ix == IndexByAddress(txn, st.addr, txn.Sender) IN
    IF st.aidx # aidx THEN [acc EXCEPT !.evalDelta = ZeroEvalDelta, !.err = ErrCrossApp]
    ELSE IF st.global
    THEN IF acc.foundGlobal
         THEN [acc EXCEPT !.evalDelta = ZeroEvalDelta, !.err = ErrMultipleGlobal]
         ELSE [acc EXCEPT !.evalDelta.GlobalDelta = stateDeltaSerialize(sds[st].kvCow),
                          !.foundGlobal = TRUE]
    ELSE IF ix.err # NoErr THEN [acc EXCEPT !.evalDelta = ZeroEvalDelta, !.err = ix.err]
    ELSE [acc EXCEPT !.evalDelta.LocalDeltas =
                         MapPut(@, ix.idx, stateDeltaSerialize(sds[st].kvCow))]

\* Every (evalDelta, err) the loops can return from the state acc on
RECURSIVE BuildDeltaRange(_, _, _, _, _, _)
BuildDeltaRange(sds, rest, cur, aidx, txn, acc) ==
    IF acc.err # NoErr \/ rest = {}
    THEN {[evalDelta |-> acc.evalDelta, err |-> acc.err]}
    ELSE UNION { BuildDeltaRange(sds, rest \ {st}, st.addr, aidx, txn,
                                 BuildDeltaVisit(sds, st, aidx, txn, acc)) :
                    st \in NextInRange(rest, cur) }

\* cb.BuildDelta(aidx, txn) for the node cb: what it can return
BuildDelta(cb, aidx, txn) ==
    BuildDeltaRange(cb.sdeltas, DOMAIN cb.sdeltas, "", aidx, txn,
                    [evalDelta |-> ZeroEvalDelta, foundGlobal |-> FALSE, err |-> NoErr])

---------------------------------------------------------------------------
(* Compact account deltas (accountdb.go, exercised by accountdb_test.go):  *)
(* the list of the accounts that several rounds changed, one entry for an  *)
(* address, with the record before the rounds (old) and after them (new)   *)

\* basics.AccountData{}; the records the rounds write are AccountDatas
ZeroAccountData == 0

\* dbAccountData: the record of an address as the account table holds it
dbAccountData(addr, pad) == [addr |-> addr, pad |-> pad]

ZeroDbAccountData == dbAccountData("", ZeroAccountData)

ActionHoldingCreate == "HOLDING_CREATE"
ActionHoldingDelete == "HOLDING_DELETE"
ActionParamsCreate == "PARAMS_CREATE"
ActionParamsDelete == "PARAMS_DELETE"

\* accountDelta{}
ZeroAccountDelta ==
    [old |-> ZeroDbAccountData, new |-> ZeroAccountData,
     createdDeletedHoldings |-> EmptyMap, createdDeletedParams |-> EmptyMap]

\* compactAccountDeltas{}: deltas[i] is the delta of addresses[i], cache
\* maps an address to its index (counted from 0, as the slices of the code
\* are), misses lists the indexes whose old record is still to be loaded
EmptyCompactDeltas ==
    [deltas |-> <<>>, addresses |-> <<>>, cache |-> EmptyMap, misses |-> <<>>]

len(a) == Len(a.deltas)

get(a, addr) ==
    IF addr \notin DOMAIN a.cache THEN [delta |-> ZeroAccountDelta, idx |-> -1]
    ELSE [delta |-> a.deltas[a.cache[addr] + 1], idx |-> a.cache[addr]]

\* Indexing a slice outside its range panics
getByIdx(a, i) ==
    IF i < 0 \/ i >= len(a)
    THEN [addr |-> "", delta |-> ZeroAccountDelta, err |-> ErrPanic]
    ELSE [addr |-> a.addresses[i + 1], delta |-> a.deltas[i + 1], err |-> NoErr]

\* insert appends the entry and points the cache at it; it returns the
\* index of the new entry
insert(a, addr, delta) ==
    [a |-> [a EXCEPT !.deltas = Append(@, delta),
                     !.addresses = Append(@, addr),
                     !.cache = MapPut(@, addr, len(a))],
     idx |-> len(a)]

insertMissing(a, addr, delta) ==
    LET r == insert(a, addr, delta) IN
    [r.a EXCEPT !.misses = Append(@, r.idx)]

\* upsert that appends whether the address has an entry or not
upsertAppends(a, addr, delta) == insert(a, addr, delta).a

upsert(a, addr, delta) ==
    IF addr \in DOMAIN a.cache
    THEN [a EXCEPT !.deltas[a.cache[addr] + 1] = delta]
    ELSE insert(a, addr, delta).a

update(a, idx, delta) ==
    IF idx < 0 \/ idx >= len(a) THEN [a |-> a, err |-> ErrPanic]
    ELSE [a |-> [a EXCEPT !.deltas[idx + 1] = delta], err |-> NoErr]

\* upsertOld that replaces the entry by one that carries old only
upsertOldResetsNew(a, old) == upsert(a, old.addr, [ZeroAccountDelta EXCEPT !.old = old])

upsertOld(a, old) ==
    IF old.addr \in DOMAIN a.cache
    THEN [a EXCEPT !.deltas[a.cache[old.addr] + 1].old = old]
    ELSE insert(a, old.addr, [ZeroAccountDelta EXCEPT !.old = old]).a

updateOld(a, idx, old) ==
    IF idx < 0 \/ idx >= len(a) THEN [a |-> a, err |-> ErrPanic]
    ELSE [a |-> [a EXCEPT !.deltas[idx + 1].old = old], err |-> NoErr]

\* The action that undoes an action on the same creatable
Opposite(action) ==
    CASE action = ActionHoldingCreate -> ActionHoldingDelete
      [] action = ActionHoldingDelete -> ActionHoldingCreate
      [] action = ActionParamsCreate -> ActionParamsDelete
      [] action = ActionParamsDelete -> ActionParamsCreate

\* Merge in which the action of the later round always replaces the earlier
MergeEntityDeltaKeepsFinal(prev, actions) ==
    [c \in (DOMAIN prev) \cup (DOMAIN actions) |->
        IF c \in DOMAIN actions THEN actions[c] ELSE prev[c]]

\* The entity actions of the earlier rounds merged with those of a later
\* round: an action that undoes the earlier one leaves no entry, any other
\* action replaces it
MergeEntityDelta(prev, actions) ==
    LET undone == { c \in (DOMAIN prev) \cap (DOMAIN actions) :
                       actions[c] = Opposite(prev[c]) }
    IN [c \in ((DOMAIN prev) \cup (DOMAIN actions)) \ undone |->
           IF c \in DOMAIN actions THEN actions[c] ELSE prev[c]]

\* compactOne that keeps the record of the first round that names the address
compactOneKeepsFirst(a, u, baseAccounts) ==
    LET prev == get(a, u.addr) IN
    IF prev.idx # -1 THEN a
    ELSE insertMissing(a, u.addr, [ZeroAccountDelta EXCEPT !.new = u.new])

\* One update of a round, (addr, new, holdings, params), taken into the
\* compact deltas; baseAccounts is the LRU of the records read lately, a map
\* from the addresses it holds to their dbAccountData
compactOne(a, u, baseAccounts) ==
    LET prev == get(a, u.addr) IN
    IF prev.idx # -1
    THEN update(a, prev.idx,
                [old |-> prev.delta.old,
                 new |-> u.new,
                 createdDeletedHoldings |->
                     MergeEntityDelta(prev.delta.createdDeletedHoldings, u.holdings),
                 createdDeletedParams |->
                     MergeEntityDelta(prev.delta.createdDeletedParams, u.params)]).a
    ELSE LET newEntry == [old |-> ZeroDbAccountData,
                          new |-> u.new,
                          createdDeletedHoldings |-> u.holdings,
                          createdDeletedParams |-> u.params]
         IN IF u.addr \in DOMAIN baseAccounts
            THEN insert(a, u.addr, [newEntry EXCEPT !.old = baseAccounts[u.addr]]).a
            ELSE insertMissing(a, u.addr, newEntry)

\* The updates of the rounds in the order the rounds list them
RECURSIVE Flatten(_)
Flatten(rounds) ==
    IF rounds = <<>> THEN <<>> ELSE Head(rounds) \o Flatten(Tail(rounds))

RECURSIVE compactAll(_, _, _)
compactAll(a, updates, baseAccounts) ==
    IF updates = <<>> THEN a
    ELSE compactAll(compactOne(a, Head(updates), baseAccounts),
                    Tail(updates), baseAccounts)

makeCompactAccountDeltas(rounds, baseAccounts) ==
    compactAll(EmptyCompactDeltas, Flatten(rounds), baseAccounts)

---------------------------------------------------------------------------
(* The state machine *)

MaxSteps == 5          \* operations in one run

\* The bases the runs start from: the storages are unallocated, or allocated
\* with the largest schema and holding nothing or one Uint key
BaseStorage ==
    { [alloc |-> FALSE, kv |-> EmptyMap, limits |-> ZeroSchema] } \cup
    { [alloc |-> TRUE, kv |-> kv,
       limits |-> [NumUint |-> U64(MaxSchema), NumByteSlice |-> U64(MaxSchema)]] :
        kv \in { EmptyMap, [k \in {<<1>>} |-> UintValue(1)] } }

\* The base the run starts from, given the state f of its storages
MakeBase(f) ==
    [alloc |-> [st \in Storages |-> f.alloc],
     kv |-> [st \in Storages |-> f.kv],
     limits |-> [st \in Storages |-> f.limits],
     accts |-> [a \in Addrs |-> BasePad(a)],
     txids |-> [i \in {1} |-> CurRound + 1],
     txleases |-> EmptyMap,
     creators |-> [i \in CreatableIndexes |-> [Creator |-> "A2", Ctype |-> "app"]],
     txnCounter |-> 1,
     compactCertNext |-> 0,
     fail |-> {}]

\* result records the last operation, its arguments and the error it
\* returned, and counts the operations of the run; run holds the storages
\* the evaluator of the run works on and the number of operations it makes
\* An empty store: a base that holds no storage at all
FreshBase == MakeBase([alloc |-> FALSE, kv |-> EmptyMap, limits |-> ZeroSchema])

\* What a run that tracks its operations keeps next to every node stack[d]
\* (replay[d]): flat, one node over the base on which every storage
\* operation of stack[1..d] that is still part of the chain was made
\* directly, in the order of the calls; fresh, one node over the empty store
\* on which, for every storage of live, the operations since the last
\* successful Allocate of the storage were made; live, the storages whose
\* last successful Allocate or Deallocate was an Allocate
ReplayStart == [flat |-> EmptyNode(0), fresh |-> EmptyNode(0), live |-> {}]

InitWith(bases, storages, limit, track) ==
    /\ \E f \in bases : base = MakeBase(f)
    /\ stack = <<EmptyNode(0)>>
    /\ result = [op |-> "init", err |-> NoErr, steps |-> 0]
    /\ run = [storages |-> storages, limit |-> limit, track |-> track]
    /\ replay = IF track THEN <<ReplayStart>> ELSE <<>>
    /\ cad = EmptyCompactDeltas

Init == InitWith(BaseStorage, {GlobalStorage}, MaxSteps, FALSE)

\* A panic ends the run
CanStep == result.steps < run.limit /\ result.err # ErrPanic

Done(r, args) ==
    [op |-> args.op, args |-> args, err |-> r.err, steps |-> result.steps + 1]

\* The value of replay after a step, in a run that tracks its operations
Tracked(g) == IF run.track THEN g ELSE replay

\* replay with g next to the last node
OnLast(g) == [replay EXCEPT ![Len(replay)] = g]

ReplaySetKey(st, key, value) ==
    LET g == replay[Len(replay)] IN
    OnLast([g EXCEPT
              !.flat = SetKey(base, <<g.flat>>, st, key, value).stack[1],
              !.fresh = IF st \in g.live
                        THEN SetKey(FreshBase, <<g.fresh>>, st, key, value).stack[1]
                        ELSE g.fresh])

ReplayDelKey(st, key) ==
    LET g == replay[Len(replay)] IN
    OnLast([g EXCEPT
              !.flat = DelKey(base, <<g.flat>>, st, key).stack[1],
              !.fresh = IF st \in g.live
                        THEN DelKey(FreshBase, <<g.fresh>>, st, key).stack[1]
                        ELSE g.fresh])

\* err is what the Allocate of the chain returned: a successful Allocate
\* starts the replay of st on the empty store anew
ReplayAllocate(st, space, err) ==
    LET g == replay[Len(replay)]
        emptied == [g.fresh EXCEPT
                      !.sdeltas = [x \in (DOMAIN g.fresh.sdeltas) \ {st} |->
                                      g.fresh.sdeltas[x]]]
    IN OnLast([flat |-> Allocate(base, <<g.flat>>, st, space).stack[1],
               fresh |-> IF err = NoErr
                         THEN Allocate(FreshBase, <<emptied>>, st, space).stack[1]
                         ELSE IF st \in g.live
                         THEN Allocate(FreshBase, <<g.fresh>>, st, space).stack[1]
                         ELSE g.fresh,
               live |-> IF err = NoErr THEN g.live \cup {st} ELSE g.live])

ReplayDeallocate(st, err) ==
    LET g == replay[Len(replay)] IN
    OnLast([g EXCEPT
              !.flat = Deallocate(base, <<g.flat>>, st).stack[1],
              !.live = IF err = NoErr THEN g.live \ {st} ELSE g.live])

ChildAct ==
    /\ CanStep
    /\ Len(stack) < MaxDepth
    /\ stack' = child(stack)
    /\ result' = Done([err |-> NoErr], [op |-> "child"])
    /\ replay' = Tracked(Append(replay, replay[Len(replay)]))
    /\ UNCHANGED <<base, run, cad>>

\* The arguments of the calls lsd.applyChild(nsd) the commit of the last node
\* makes: for each storage both nodes hold a delta of, the parent's delta
\* before the call and the child's
AppliedChildren(s) ==
    LET ch == s[Len(s)].sdeltas
        p == s[Len(s) - 1].sdeltas
    IN [st \in (DOMAIN ch) \cap (DOMAIN p) |-> [parent |-> p[st], child |-> ch[st]]]

CommitAct ==
    /\ CanStep
    /\ Len(stack) > 1
    /\ LET r == commitToParent(stack)
       IN /\ stack' = r.stack
          /\ result' = Done(r, [op |-> "commitToParent",
                                applied |-> AppliedChildren(stack)])
    /\ replay' = Tracked(SubSeq(replay, 1, Len(replay) - 2) \o <<replay[Len(replay)]>>)
    /\ UNCHANGED <<base, run, cad>>

\* The evaluator drops the last node without committing it
DropAct ==
    /\ CanStep
    /\ Len(stack) > 1
    /\ stack' = SubSeq(stack, 1, Len(stack) - 1)
    /\ result' = Done([err |-> NoErr], [op |-> "drop"])
    /\ replay' = Tracked(SubSeq(replay, 1, Len(replay) - 1))
    /\ UNCHANGED <<base, run, cad>>

SetKeyAct ==
    /\ CanStep
    /\ \E st \in run.storages, key \in KeyInputs, value \in ValueInputs :
          LET r == SetKey(base, stack, st, key, value)
          IN /\ stack' = r.stack
             /\ result' = Done(r, [op |-> "SetKey", st |-> st, key |-> key, value |-> value])
             /\ replay' = Tracked(ReplaySetKey(st, key, value))
    /\ UNCHANGED <<base, run, cad>>

DelKeyAct ==
    /\ CanStep
    /\ \E st \in run.storages, key \in KeyInputs :
          LET r == DelKey(base, stack, st, key)
          IN /\ stack' = r.stack
             /\ result' = Done(r, [op |-> "DelKey", st |-> st, key |-> key])
             /\ replay' = Tracked(ReplayDelKey(st, key))
    /\ UNCHANGED <<base, run, cad>>

AllocateAct ==
    /\ CanStep
    /\ \E st \in run.storages, space \in Schemas :
          LET r == Allocate(base, stack, st, space)
          IN /\ stack' = r.stack
             /\ result' = Done(r, [op |-> "Allocate", st |-> st, space |-> space])
             /\ replay' = Tracked(ReplayAllocate(st, space, r.err))
    /\ UNCHANGED <<base, run, cad>>

DeallocateAct ==
    /\ CanStep
    /\ \E st \in run.storages :
          LET r == Deallocate(base, stack, st)
          IN /\ stack' = r.stack
             /\ result' = Done(r, [op |-> "Deallocate", st |-> st])
             /\ replay' = Tracked(ReplayDeallocate(st, r.err))
    /\ UNCHANGED <<base, run, cad>>

Next ==
    \/ ChildAct
    \/ CommitAct
    \/ DropAct
    \/ SetKeyAct
    \/ DelKeyAct
    \/ AllocateAct
    \/ DeallocateAct

Spec == Init /\ [][Next]_vars

---------------------------------------------------------------------------
(* The state machine with the account operations as well, from one base *)

MaxStepsAll == 4       \* operations in one run of SpecAll

InitAll ==
    InitWith({ f \in BaseStorage : f.alloc /\ f.kv # EmptyMap }, Storages, MaxStepsAll, FALSE)

LookupAct ==
    /\ CanStep
    /\ \E addr \in Addrs :
          LET r == lookup(base, stack, Len(stack), addr)
          IN /\ stack' = r.stack
             /\ result' = Done(r, [op |-> "lookup", addr |-> addr])
    /\ UNCHANGED <<base, run, replay, cad>>

PutAct ==
    /\ CanStep
    /\ \E addr \in Addrs, new \in AccountDatas,
          newCreatable \in Locators \cup {Nil}, deletedCreatable \in Locators \cup {Nil} :
          LET r == put(stack, addr, new, newCreatable, deletedCreatable)
          IN /\ stack' = r.stack
             /\ result' = Done(r, [op |-> "put", addr |-> addr, new |-> new,
                                   newCreatable |-> newCreatable,
                                   deletedCreatable |-> deletedCreatable])
    /\ UNCHANGED <<base, run, replay, cad>>

AddTxAct ==
    /\ CanStep
    /\ \E txn \in Txns :
          /\ stack' = addTx(stack, txn)
          /\ result' = Done([err |-> NoErr], [op |-> "addTx", txn |-> txn])
    /\ UNCHANGED <<base, run, replay, cad>>

NextAll ==
    \/ Next
    \/ LookupAct
    \/ PutAct
    \/ AddTxAct

SpecAll == InitAll /\ [][NextAll]_vars

---------------------------------------------------------------------------
(* The state machine of the storage operations, in runs that track their   *)
(* operations in replay                                                    *)

MaxStepsReplay == 6    \* operations in one run of SpecReplay

InitReplay ==
    InitWith({ f \in BaseStorage : f.kv = EmptyMap }, {GlobalStorage}, MaxStepsReplay, TRUE)

SpecReplay == InitReplay /\ [][Next]_vars

---------------------------------------------------------------------------
(* What the properties speak about *)

top == Len(stack)

StorageOps == {"SetKey", "DelKey", "Allocate", "Deallocate"}

\* The last operation was op and returned no error
Succeeded(op) == result.op = op /\ result.err = NoErr

\* Every read the chain offers on the node at d
Reads(b, s, d) ==
    [allocated |-> [st \in Storages |-> allocated(b, s, d, st)],
     getKey |-> [st \in Storages |-> [key \in KeyInputs |-> getKey(b, s, d, st, key)]],
     getStorageCounts |-> [st \in Storages |-> getStorageCounts(b, s, d, st)],
     getStorageLimits |-> [st \in Storages |-> getStorageLimits(b, s, d, st)],
     lookup |-> [addr \in Addrs |-> [pad |-> lookup(b, s, d, addr).pad,
                                     err |-> lookup(b, s, d, addr).err]],
     checkDup |-> [txn \in Txns |->
                     checkDup(b, s, d, txn.txid, [Sender |-> txn.Sender, Lease |-> txn.Lease])],
     txnCounter |-> txnCounter(b, s, d),
     getCreator |-> [cidx \in CreatableIndexes |->
                       [ctype \in CreatableTypes |-> getCreator(b, s, d, cidx, ctype)]]]

\* The step committed the last node into the node at d
CommittedInto(d) == result'.op = "commitToParent" /\ d = Len(stack')

---------------------------------------------------------------------------
(* C1: rollback and isolation.  Whatever is done on a node (SetKey, DelKey, *)
(* Allocate, Deallocate, put, addTx, also creating or dropping a child),   *)
(* every read on each of its ancestors returns what it returned before, as *)
(* long as the step is not the commit into that ancestor; and the          *)
(* operations other than lookup leave the ancestors exactly as they were,  *)
(* so that dropping a node leaves its parent as it was.                    *)

C1_Isolation ==
    [][\A d \in 1..(Len(stack) - 1) :
          (d <= Len(stack') /\ ~CommittedInto(d)) =>
              /\ Reads(base', stack', d) = Reads(base, stack, d)
              /\ result'.op # "lookup" => stack'[d] = stack[d]]_vars

\* A child has written a key that its parent, which holds modifications of
\* its own, reads differently
C1_Witness ==
    /\ top >= 2
    /\ Succeeded("put")
    /\ stack[top - 1].sdeltas # EmptyMap
    /\ Reads(base, stack, top).lookup # Reads(base, stack, top - 1).lookup

---------------------------------------------------------------------------
(* C2: commit equivalence.  After child.commitToParent(), allocated,       *)
(* getKey and getStorageCounts on the parent return, for every storage and *)
(* key, what they returned on the child just before the commit.            *)

C2_CommitEquivalence ==
    [][result'.op = "commitToParent" =>
          \A st \in Storages :
             /\ allocated(base', stack', Len(stack'), st) = allocated(base, stack, Len(stack), st)
             /\ getStorageCounts(base', stack', Len(stack'), st)
                   = getStorageCounts(base, stack, Len(stack), st)
             /\ \A key \in KeyInputs :
                   getKey(base', stack', Len(stack'), st, key)
                      = getKey(base, stack, Len(stack), st, key)]_vars

---------------------------------------------------------------------------
(* C3: applyChild, merge branch.  When a child storage delta with action   *)
(* REMAIN_ALLOC is committed into a parent storage delta that holds an     *)
(* entry for a key of the child, the parent's entry ends with the child's  *)
(* new and newExists, and the parent's getKey returns them.                *)

C3_MergeTakesChildNew ==
    [][result'.op = "commitToParent" =>
          \A st \in (DOMAIN stack[Len(stack)].sdeltas) \cap (DOMAIN stack[Len(stack) - 1].sdeltas) :
             LET ch == stack[Len(stack)].sdeltas[st]
                 p == stack[Len(stack) - 1].sdeltas[st]
                 after == stack'[Len(stack')].sdeltas[st]
             IN ch.action = remainAllocAction =>
                   \A key \in (DOMAIN ch.kvCow) \cap (DOMAIN p.kvCow) :
                      /\ after.kvCow[key].new = ch.kvCow[key].new
                      /\ after.kvCow[key].newExists = ch.kvCow[key].newExists
                      /\ getKey(base', stack', Len(stack'), st, key).value = ch.kvCow[key].new
                      /\ getKey(base', stack', Len(stack'), st, key).ok = ch.kvCow[key].newExists]_vars

---------------------------------------------------------------------------
(* C4: getKey fall-through.  When the storage is allocated as seen from a  *)
(* node, getKey on the node returns (new, newExists) of the node's own     *)
(* entry for the key if it has one; (no value, false) if the node has a    *)
(* storage delta with action ALLOC or DEALLOC and no entry for the key;    *)
(* and what the parent's getKey returns otherwise.                         *)

C4_GetKeyFallThrough ==
    \A d \in 1..Len(stack), st \in Storages, key \in KeyInputs :
       LET sds == stack[d].sdeltas
           got == getKey(base, stack, d, st, key)
       IN allocated(base, stack, d, st).ok =>
             IF st \in DOMAIN sds /\ key \in DOMAIN sds[st].kvCow
             THEN got = [value |-> sds[st].kvCow[key].new,
                         ok |-> sds[st].kvCow[key].newExists, err |-> NoErr]
             ELSE IF st \in DOMAIN sds /\ sds[st].action \in {allocAction, deallocAction}
             THEN got = [value |-> ZeroValue, ok |-> FALSE, err |-> NoErr]
             ELSE got = getKey(base, stack, d - 1, st, key)

\* All three cases in one chain: a node that allocated anew over a parent
\* that holds the key masks it, its child answers from an entry of its own
\* for one key and from its parent for another
C4_Witness ==
    /\ top >= 2
    /\ \E st \in Storages, k1, k2 \in Keys :
          /\ st \in DOMAIN stack[top - 1].sdeltas
          /\ stack[top - 1].sdeltas[st].action = allocAction
          /\ k1 \notin DOMAIN stack[top - 1].sdeltas[st].kvCow
          /\ getKey(base, stack, top - 2, st, k1).ok
          /\ ~getKey(base, stack, top - 1, st, k1).ok
          /\ st \in DOMAIN stack[top].sdeltas
          /\ stack[top].sdeltas[st].action = remainAllocAction
          /\ k2 \in DOMAIN stack[top].sdeltas[st].kvCow
          /\ getKey(base, stack, top, st, k2).ok
          /\ k1 \notin DOMAIN stack[top].sdeltas[st].kvCow
          /\ getKey(base, stack, top, st, k1) = getKey(base, stack, top - 1, st, k1)

---------------------------------------------------------------------------
(* C5: read-your-writes.  Right after a successful SetKey(st, k, v) on a   *)
(* node, getKey(st, k) on it returns (v, true), right after a successful   *)
(* DelKey it returns (no value, false), and getKey(st, k) on a node keeps  *)
(* its answer over every step that is not a SetKey, DelKey, Allocate or    *)
(* Deallocate of st on that node nor the commit of a child into it.        *)

C5_AfterWrite ==
    /\ Succeeded("SetKey") =>
          getKey(base, stack, top, result.args.st, result.args.key)
             = [value |-> result.args.value, ok |-> TRUE, err |-> NoErr]
    /\ Succeeded("DelKey") =>
          getKey(base, stack, top, result.args.st, result.args.key)
             = [value |-> ZeroValue, ok |-> FALSE, err |-> NoErr]

\* The step was a storage operation of st on the node at d
WroteStorage(d, st) ==
    /\ d = Len(stack)
    /\ result'.op \in StorageOps
    /\ result'.args.st = st

---------------------------------------------------------------------------
(* C6: after any SetKey or DelKey that returns success, the touched        *)
(* storage delta has counts.numUint <= maxCounts.numUint and               *)
(* counts.numByteSlice <= maxCounts.numByteSlice.                          *)

WithinSchema(lsd) ==
    /\ ~Gt64(lsd.counts.NumUint, lsd.maxCounts.NumUint)
    /\ ~Gt64(lsd.counts.NumByteSlice, lsd.maxCounts.NumByteSlice)

C6_CountsWithinSchema ==
    (Succeeded("SetKey") \/ Succeeded("DelKey")) =>
        (result.args.st \in DOMAIN stack[top].sdeltas =>
            WithinSchema(stack[top].sdeltas[result.args.st]))

---------------------------------------------------------------------------
(* C7: counts match content.  For every node and every storage allocated   *)
(* as seen from it, getStorageCounts equals the number of keys for which   *)
(* getKey on the node returns exists = true with a Uint value (numUint)    *)
(* and with a Bytes value (numByteSlice).                                  *)

\* The keys of type `type` that exist in st as seen from the node at d
KeysOfType(b, s, d, st, type) ==
    { key \in KeyInputs :
         getKey(b, s, d, st, key).ok /\ getKey(b, s, d, st, key).value.Type = type }

Content(b, s, d, st) ==
    [NumUint |-> U64(Cardinality(KeysOfType(b, s, d, st, TealUintType))),
     NumByteSlice |-> U64(Cardinality(KeysOfType(b, s, d, st, TealBytesType)))]

C7_CountsMatchContent ==
    \A d \in 1..Len(stack), st \in Storages :
       allocated(base, stack, d, st).ok =>
          getStorageCounts(base, stack, d, st).schema = Content(base, stack, d, st)

---------------------------------------------------------------------------
(* C8: schema limit.  A SetKey on an allocated storage that would bring    *)
(* the number of existing Uint keys above the storage's numUint (or of     *)
(* Bytes keys above numByteSlice), counting the keys of the node, of its   *)
(* ancestors and of the base, fails with SCHEMA_EXCEEDED, and the failed   *)
(* call leaves the ancestors unchanged.                                    *)

\* The content of st as seen from the last node once key holds value
ContentWith(st, key, value) ==
    LET uints == (KeysOfType(base, stack, top, st, TealUintType) \ {key})
                    \cup (IF value.Type = TealUintType THEN {key} ELSE {})
        bytes == (KeysOfType(base, stack, top, st, TealBytesType) \ {key})
                    \cup (IF value.Type = TealBytesType THEN {key} ELSE {})
    IN [NumUint |-> U64(Cardinality(uints)), NumByteSlice |-> U64(Cardinality(bytes))]

Exceeds(counts, maxCounts) ==
    \/ Gt64(counts.NumUint, maxCounts.NumUint)
    \/ Gt64(counts.NumByteSlice, maxCounts.NumByteSlice)

C8_SchemaLimit ==
    [][(/\ result'.op = "SetKey"
        /\ result'.err \notin {ErrKeyTooLong, ErrValueTooLong}
        /\ allocated(base, stack, top, result'.args.st).ok
        /\ Exceeds(ContentWith(result'.args.st, result'.args.key, result'.args.value),
                   getStorageLimits(base, stack, top, result'.args.st).schema))
          => /\ result'.err = ErrSchemaExceeded
             /\ \A d \in 1..(Len(stack) - 1) : stack'[d] = stack[d]]_vars

---------------------------------------------------------------------------
(* C9: in every node, every storage delta whose action is DEALLOC has an   *)
(* empty key/value map and counts equal to zero.                           *)

C9_DeallocIsEmpty ==
    \A d \in 1..Len(stack) : \A st \in DOMAIN stack[d].sdeltas :
       stack[d].sdeltas[st].action = deallocAction =>
          /\ stack[d].sdeltas[st].kvCow = EmptyMap
          /\ stack[d].sdeltas[st].counts = ZeroSchema

\* The commit of a child that deallocated a storage left the DEALLOC delta
\* in a parent that still reads keys of that storage from below
C9_Witness ==
    /\ result.op = "commitToParent"
    /\ \E st \in DOMAIN stack[top].sdeltas :
          /\ stack[top].sdeltas[st].action = deallocAction
          /\ \E key \in Keys : getKey(base, stack, top - 1, st, key).ok

---------------------------------------------------------------------------
(* C10: allocated on a node is true if the node's own storage delta has    *)
(* action ALLOC, false if it has action DEALLOC, and otherwise what        *)
(* allocated returns on the parent; so it is the outcome of the Allocate   *)
(* or Deallocate that just succeeded on the node.                          *)

C10_Allocated ==
    /\ \A d \in 1..Len(stack), st \in Storages :
          LET sds == stack[d].sdeltas IN
          allocated(base, stack, d, st) =
             IF st \in DOMAIN sds /\ sds[st].action = allocAction
             THEN [ok |-> TRUE, err |-> NoErr]
             ELSE IF st \in DOMAIN sds /\ sds[st].action = deallocAction
             THEN [ok |-> FALSE, err |-> NoErr]
             ELSE allocated(base, stack, d - 1, st)
    /\ Succeeded("Allocate") => allocated(base, stack, top, result.args.st).ok
    /\ Succeeded("Deallocate") => ~allocated(base, stack, top, result.args.st).ok

\* A child deallocated the storage its parent allocated over a base that
\* does not hold it, and its own child reads the answer through it
C10_Witness ==
    /\ top >= 3
    /\ \E st \in Storages :
          /\ ~allocated(base, stack, 0, st).ok
          /\ allocated(base, stack, 1, st).ok
          /\ Succeeded("child")
          /\ st \in DOMAIN stack[2].sdeltas
          /\ stack[2].sdeltas[st].action = deallocAction
          /\ ~allocated(base, stack, 3, st).ok

---------------------------------------------------------------------------
(* C11: getKey, SetKey, DelKey and Deallocate on a storage for which       *)
(* allocated is false fail with NO_STORAGE, and the failed call leaves the *)
(* node's storage deltas as they were.                                     *)

\* getKey on a storage that is not allocated as seen from the node
C11_GetKeyNoStorage ==
    \A d \in 1..Len(stack), st \in Storages, key \in KeyInputs :
       ~allocated(base, stack, d, st).ok =>
           getKey(base, stack, d, st, key).err = ErrNoStorage

\* The step is one of `ops` on a storage that is not allocated as seen from
\* the node it is called on
OnUnallocated(ops) ==
    /\ result'.op \in ops
    /\ ~allocated(base, stack, Len(stack), result'.args.st).ok

C11_NoStorage ==
    /\ []C11_GetKeyNoStorage
    /\ [][OnUnallocated({"SetKey", "DelKey", "Deallocate"}) =>
             /\ result'.err = ErrNoStorage
             /\ stack' = stack]_vars

\* The key and the value of the SetKey of the step are within the lengths
\* the protocol allows
LengthsAllowed ==
    /\ Len(result'.args.key) <= MaxAppKeyLen
    /\ result'.args.value.Type = TealBytesType =>
          Len(result'.args.value.Bytes) <= MaxAppBytesValueLen

(* C11, amended: as above, for a SetKey whose key and value are within the *)
(* lengths the protocol allows; SetKey checks the lengths first.           *)
C11_NoStorageAfterLengths ==
    /\ []C11_GetKeyNoStorage
    /\ [][(\/ OnUnallocated({"DelKey", "Deallocate"})
           \/ OnUnallocated({"SetKey"}) /\ LengthsAllowed) =>
             /\ result'.err = ErrNoStorage
             /\ stack' = stack]_vars

\* A node under a parent that deallocated a storage of the base is refused
\* a write of a key the base holds
C11_Witness ==
    /\ top >= 2
    /\ result.op \in {"SetKey", "DelKey"}
    /\ result.err = ErrNoStorage
    /\ baseGetKey(base, result.args.st, result.args.key).ok
    /\ result.args.st \in DOMAIN stack[top - 1].sdeltas
    /\ stack[top - 1].sdeltas[result.args.st].action = deallocAction

---------------------------------------------------------------------------
(* C12: SetKey with a key longer than MaxAppKeyLen fails with KEY_TOO_LONG *)
(* and SetKey with a Bytes value longer than MaxAppBytesValueLen fails     *)
(* with VALUE_TOO_LONG, whether or not the storage is allocated, and the   *)
(* failed call leaves the chain as it was.                                 *)

KeyTooLong == Len(result'.args.key) > MaxAppKeyLen

ValueTooLong ==
    /\ result'.args.value.Type = TealBytesType
    /\ Len(result'.args.value.Bytes) > MaxAppBytesValueLen

C12_LengthChecks ==
    [][result'.op = "SetKey" =>
          /\ KeyTooLong => (result'.err = ErrKeyTooLong /\ stack' = stack)
          /\ ValueTooLong => (result'.err = ErrValueTooLong /\ stack' = stack)]_vars

(* C12, amended: the key is checked first, so a too long value fails with  *)
(* VALUE_TOO_LONG when the key is within MaxAppKeyLen.                     *)
C12_LengthChecksInOrder ==
    [][result'.op = "SetKey" =>
          /\ KeyTooLong => (result'.err = ErrKeyTooLong /\ stack' = stack)
          /\ (ValueTooLong /\ ~KeyTooLong) =>
                (result'.err = ErrValueTooLong /\ stack' = stack)]_vars

\* A too long value was refused on a storage that is not allocated, in a
\* node whose parent holds the storage delta that deallocated it
C12_Witness ==
    /\ top >= 2
    /\ result.op = "SetKey"
    /\ result.err = ErrValueTooLong
    /\ ~allocated(base, stack, top, result.args.st).ok
    /\ result.args.st \in DOMAIN stack[top - 1].sdeltas

---------------------------------------------------------------------------
(* C13: DelKey with a key longer than MaxAppKeyLen fails with KEY_TOO_LONG *)
(* and leaves the chain as it was.                                         *)

C13_DelKeyKeyTooLong ==
    [][(result'.op = "DelKey" /\ KeyTooLong) =>
          /\ result'.err = ErrKeyTooLong
          /\ stack' = stack]_vars

---------------------------------------------------------------------------
(* C14: Allocate fails with ALREADY_ALLOCATED whenever the storage is      *)
(* allocated as seen from the node, by the node itself, by an ancestor or  *)
(* by the base, and the failed call leaves the storage deltas unchanged.   *)

C14_AlreadyAllocated ==
    [][(/\ result'.op = "Allocate"
        /\ allocated(base, stack, Len(stack), result'.args.st).ok) =>
          /\ result'.err = ErrAlreadyStorage
          /\ stack' = stack]_vars

\* The allocation that refuses the call is an ancestor's: the base does not
\* hold the storage and the node has no storage delta for it
C14_Witness ==
    /\ top >= 2
    /\ result.op = "Allocate"
    /\ result.err = ErrAlreadyStorage
    /\ ~allocated(base, stack, 0, result.args.st).ok
    /\ result.args.st \notin DOMAIN stack[top].sdeltas
    /\ allocated(base, stack, top - 1, result.args.st).ok

---------------------------------------------------------------------------
(* C15: after a successful Allocate(st, space) on a node, the node's       *)
(* storage delta for st has action ALLOC, maxCounts = space, counts zero   *)
(* and an empty key/value map, and getKey on the node returns exists =     *)
(* false for every key, whatever the ancestors and the base hold.          *)

C15_AllocateIsFresh ==
    Succeeded("Allocate") =>
        LET st == result.args.st IN
        /\ st \in DOMAIN stack[top].sdeltas
        /\ stack[top].sdeltas[st] =
              [action |-> allocAction, kvCow |-> EmptyMap,
               counts |-> ZeroSchema, maxCounts |-> result.args.space]
        /\ \A key \in KeyInputs :
              getKey(base, stack, top, st, key)
                 = [value |-> ZeroValue, ok |-> FALSE, err |-> NoErr]

\* The Allocate follows a Deallocate in the same node, over a base that
\* holds a key of the storage: no ancestor node has a storage delta for it
C15_Witness ==
    /\ top >= 2
    /\ Succeeded("Allocate")
    /\ result.args.space # ZeroSchema
    /\ \A d \in 1..(top - 1) : result.args.st \notin DOMAIN stack[d].sdeltas
    /\ \E key \in Keys : baseGetKey(base, result.args.st, key).ok

---------------------------------------------------------------------------
(* C16: applyChild, replace branch.  When a child storage delta with       *)
(* action ALLOC or DEALLOC is committed into a parent that holds a storage *)
(* delta for the same storage, the parent's action, key/value map, counts  *)
(* and maxCounts all become the child's.                                   *)

\* The calls of applyChild the last step made, if it was a commit
Applied == IF result.op = "commitToParent" THEN result.args.applied ELSE EmptyMap

C16_ReplaceBranch ==
    \A st \in DOMAIN Applied :
       Applied[st].child.action \in {allocAction, deallocAction} =>
          stack[top].sdeltas[st] = Applied[st].child

\* A child's Deallocate was committed over a parent ALLOC delta that held
\* writes
C16_Witness ==
    \E st \in DOMAIN Applied :
       /\ Applied[st].parent.action = allocAction
       /\ Applied[st].parent.kvCow # EmptyMap
       /\ Applied[st].child.action = deallocAction
       /\ stack[top].sdeltas[st].action = deallocAction
       /\ stack[top].sdeltas[st].kvCow = EmptyMap

---------------------------------------------------------------------------
(* C17: applyChild, merge branch.  Committing a REMAIN_ALLOC child delta   *)
(* never changes old or oldExists of an entry the parent already holds,    *)
(* leaves the parent's entries for keys the child did not touch unchanged, *)
(* and inserts the child's whole entry for every key absent from the       *)
(* parent.                                                                 *)

C17_MergeFrame ==
    \A st \in DOMAIN Applied :
       LET p == Applied[st].parent.kvCow
           ch == Applied[st].child.kvCow
           after == stack[top].sdeltas[st].kvCow
       IN Applied[st].child.action = remainAllocAction =>
             /\ DOMAIN after = (DOMAIN p) \cup (DOMAIN ch)
             /\ \A key \in DOMAIN p :
                   /\ after[key].old = p[key].old
                   /\ after[key].oldExists = p[key].oldExists
             /\ \A key \in (DOMAIN p) \ (DOMAIN ch) : after[key] = p[key]
             /\ \A key \in (DOMAIN ch) \ (DOMAIN p) : after[key] = ch[key]

\* The merge met a key both deltas hold, whose old the child recorded
\* differently from the parent, and a key only the child holds
C17_Witness ==
    \E st \in DOMAIN Applied :
       /\ Applied[st].child.action = remainAllocAction
       /\ \E key \in (DOMAIN Applied[st].parent.kvCow) \cap (DOMAIN Applied[st].child.kvCow) :
             Applied[st].child.kvCow[key].old # Applied[st].parent.kvCow[key].old
       /\ (DOMAIN Applied[st].child.kvCow) \ (DOMAIN Applied[st].parent.kvCow) # {}

---------------------------------------------------------------------------
(* C18: applyChild, merge branch.  Committing a REMAIN_ALLOC child delta   *)
(* sets the parent's counts to the child's counts and leaves the parent's  *)
(* action and maxCounts unchanged.                                         *)

C18_MergeCounts ==
    \A st \in DOMAIN Applied :
       Applied[st].child.action = remainAllocAction =>
          /\ stack[top].sdeltas[st].counts = Applied[st].child.counts
          /\ stack[top].sdeltas[st].action = Applied[st].parent.action
          /\ stack[top].sdeltas[st].maxCounts = Applied[st].parent.maxCounts

\* The child's counts differ from those of the parent, whose action is not
\* the child's
C18_Witness ==
    \E st \in DOMAIN Applied :
       /\ Applied[st].child.action = remainAllocAction
       /\ Applied[st].parent.action = allocAction
       /\ Applied[st].child.counts # Applied[st].parent.counts
       /\ stack[top].sdeltas[st].counts = Applied[st].child.counts

---------------------------------------------------------------------------
(* C19: commit associativity.  After the commits of a chain A <- B <- C (C *)
(* into B, then B into A), allocated, getKey and getStorageCounts on the   *)
(* node committed into return, for every storage and key, what they return *)
(* on a node on which all the operations were made directly, in the order  *)
(* of the calls.                                                           *)

\* What the node at d of the chain s over b lets observe of the storages
Observed(b, s, d) ==
    [allocated |-> [st \in Storages |-> allocated(b, s, d, st)],
     getKey |-> [st \in Storages |-> [key \in KeyInputs |-> getKey(b, s, d, st, key)]],
     getStorageCounts |-> [st \in Storages |-> getStorageCounts(b, s, d, st)]]

C19_CommitAssociativity ==
    result.op = "commitToParent" =>
        Observed(base, stack, top) = Observed(base, <<replay[top].flat>>, 1)

---------------------------------------------------------------------------
(* C20: round trip.  When the last successful Allocate or Deallocate of a  *)
(* storage was an Allocate, whatever the layers and the commits the        *)
(* operations went through, getKey for every key and the counts of the     *)
(* storage are those of an empty store on which only the operations from   *)
(* that Allocate on were made.                                             *)

C20_RoundTrip ==
    \A st \in replay[top].live :
       /\ getStorageCounts(base, stack, top, st)
             = getStorageCounts(FreshBase, <<replay[top].fresh>>, 1, st)
       /\ \A key \in KeyInputs :
             getKey(base, stack, top, st, key)
                = getKey(FreshBase, <<replay[top].fresh>>, 1, st, key)

---------------------------------------------------------------------------
(* The serialization of one value delta: every value delta over the        *)
(* bounded values, held for a key by the storage delta of a node, is       *)
(* serialized                                                              *)

\* Every basics.TealValue within the bounds, the zero value included
SerializeValues ==
    {ZeroValue}
       \cup { UintValue(n) : n \in 0..MaxUintValue }
       \cup { BytesValue([i \in 1..n |-> 1]) : n \in 0..MaxAppBytesValueLen }

ValueDeltas ==
    [old : SerializeValues, oldExists : BOOLEAN,
     new : SerializeValues, newExists : BOOLEAN]

SerializeKey == <<1>>

InitSerialize ==
    /\ base = FreshBase
    /\ \E vd \in ValueDeltas :
          stack = <<[EmptyNode(0) EXCEPT
                       !.sdeltas = [st \in {GlobalStorage} |->
                                      [action |-> remainAllocAction,
                                       kvCow |-> [k \in {SerializeKey} |-> vd],
                                       counts |-> ZeroSchema,
                                       maxCounts |-> ZeroSchema]]]>>
    /\ result = [op |-> "init", err |-> NoErr, steps |-> 0]
    /\ run = [storages |-> {GlobalStorage}, limit |-> 1, track |-> FALSE]
    /\ replay = <<>>
    /\ cad = EmptyCompactDeltas

SerializeAct ==
    /\ CanStep
    /\ LET kvCow == stack[1].sdeltas[GlobalStorage].kvCow
       IN result' = [op |-> "serialize",
                     args |-> [op |-> "serialize", vd |-> kvCow[SerializeKey]],
                     wire |-> valueDeltaSerialize(kvCow[SerializeKey]),
                     delta |-> stateDeltaSerialize(kvCow),
                     err |-> NoErr,
                     steps |-> result.steps + 1]
    /\ UNCHANGED <<base, stack, run, replay, cad>>

NextSerialize == SerializeAct

SpecSerialize == InitSerialize /\ [][NextSerialize]_vars

---------------------------------------------------------------------------
(* C21: valueDelta.serialize follows the five ordered rules for every      *)
(* value delta over the bounded values: neither old nor new exists, not    *)
(* emitted; old exists and new does not, DELETE; old exists and equals new *)
(* structurally, type included, not emitted; new is Bytes, SET_BYTES of    *)
(* new's bytes; otherwise SET_UINT of new's number.  stateDelta.serialize  *)
(* holds the wire delta of a key exactly when it is emitted.               *)

Wire(action, bytes, uint) == [Action |-> action, Bytes |-> bytes, Uint |-> uint]

C21_SerializeRules ==
    result.op = "serialize" =>
        LET vd == result.args.vd
            emit == result.wire.ok
            wire == result.wire.vdelta
        IN /\ IF ~vd.newExists /\ ~vd.oldExists THEN ~emit
              ELSE IF ~vd.newExists /\ vd.oldExists
              THEN emit /\ wire = Wire(DeleteAction, <<>>, 0)
              ELSE IF vd.oldExists /\ vd.old = vd.new THEN ~emit
              ELSE IF vd.new.Type = TealBytesType
              THEN emit /\ wire = Wire(SetBytesAction, vd.new.Bytes, 0)
              ELSE emit /\ wire = Wire(SetUintAction, <<>>, vd.new.Uint)
           /\ emit <=> SerializeKey \in DOMAIN result.delta
           /\ emit => result.delta[SerializeKey] = wire

\* A value delta whose old and new differ by their type only is emitted
C21_Witness ==
    /\ result.op = "serialize"
    /\ result.args.vd.oldExists /\ result.args.vd.newExists
    /\ result.args.vd.old.Bytes = result.args.vd.new.Bytes
    /\ result.args.vd.old.Uint = result.args.vd.new.Uint
    /\ result.args.vd.old.Type # result.args.vd.new.Type
    /\ result.wire.ok
    /\ SerializeKey \in DOMAIN result.delta

---------------------------------------------------------------------------
(* C22: minimal and faithful delta.  For a node whose storage delta has    *)
(* the action REMAIN_ALLOC, the serialized delta holds an entry for a key  *)
(* exactly when getKey on the node differs from getKey on its parent for   *)
(* that key, in existence, type or value; writing back the stored value,   *)
(* or changing a key and restoring it in the same node, gives no entry.    *)

\* What getKey lets observe of the key: the value and whether it exists
KeyView(b, s, d, st, key) ==
    [value |-> getKey(b, s, d, st, key).value, ok |-> getKey(b, s, d, st, key).ok]

C22_MinimalDelta ==
    \A d \in 1..Len(stack) :
       \A st \in DOMAIN stack[d].sdeltas :
          stack[d].sdeltas[st].action = remainAllocAction =>
             \A key \in KeyInputs :
                key \in DOMAIN stateDeltaSerialize(stack[d].sdeltas[st].kvCow)
                   <=> KeyView(base, stack, d, st, key) # KeyView(base, stack, d - 1, st, key)

\* A child that wrote back the value its parent holds for one key and wrote
\* another key: its storage delta records both, the serialized delta holds
\* the second only
C22_Witness ==
    /\ top >= 2
    /\ \E st \in DOMAIN stack[top].sdeltas, k1, k2 \in Keys :
          LET lsd == stack[top].sdeltas[st] IN
          /\ lsd.action = remainAllocAction
          /\ {k1, k2} \subseteq DOMAIN lsd.kvCow
          /\ lsd.kvCow[k1].newExists
          /\ k1 \notin DOMAIN stateDeltaSerialize(lsd.kvCow)
          /\ k2 \in DOMAIN stateDeltaSerialize(lsd.kvCow)

---------------------------------------------------------------------------
(* The state machine of an evaluation: the calls the evaluator of a        *)
(* stateful program makes on the last node, over a base whose storages are *)
(* allocated, and BuildDelta on the last node                              *)

MaxStepsBuild == 4     \* operations in one run of SpecBuild

AppIndexes == {7, 8}

SecondGlobalStorage == [addr |-> "A2", aidx |-> 7, global |-> TRUE]

ThirdLocalStorage == [addr |-> "A3", aidx |-> 7, global |-> FALSE]

OtherAppStorage == [addr |-> "A2", aidx |-> 8, global |-> FALSE]

EvalStorages ==
    Storages \cup {SecondGlobalStorage, ThirdLocalStorage, OtherAppStorage}

\* The transactions BuildDelta is given: the sender and the account array
EvalTxns ==
    { [Sender |-> "A1", Accounts |-> <<"A2", "A3">>],
      [Sender |-> "A2", Accounts |-> <<"A2", "A3">>],
      [Sender |-> "A1", Accounts |-> <<"A2">>] }

\* The base of MakeBase(f) with the storages of EvalStorages
EvalBase(f) ==
    [MakeBase(f) EXCEPT !.alloc = [st \in EvalStorages |-> f.alloc],
                        !.kv = [st \in EvalStorages |-> f.kv],
                        !.limits = [st \in EvalStorages |-> f.limits]]

InitEval(storages, txns, limit) ==
    /\ \E f \in { g \in BaseStorage : g.alloc } : base = EvalBase(f)
    /\ stack = <<EmptyNode(0)>>
    /\ result = [op |-> "init", err |-> NoErr, steps |-> 0]
    /\ run = [storages |-> storages, limit |-> limit, track |-> FALSE, txns |-> txns]
    /\ replay = <<>>
    /\ cad = EmptyCompactDeltas

InitBuild == InitEval(EvalStorages, EvalTxns, MaxStepsBuild)

\* The calls an evaluator makes on the node it is given: it writes and
\* deletes keys and reads accounts
EvalOps(storages) ==
    { [op |-> "SetKey", st |-> st, key |-> <<1>>, value |-> v] :
         st \in storages, v \in TealValues }
       \cup { [op |-> "DelKey", st |-> st, key |-> <<1>>] : st \in storages }
       \cup { [op |-> "lookup", addr |-> a] : a \in Addrs }

\* The chain and the error after the call op on the last node of s
ApplyOp(b, s, op) ==
    IF op.op = "SetKey" THEN SetKey(b, s, op.st, op.key, op.value)
    ELSE IF op.op = "DelKey" THEN DelKey(b, s, op.st, op.key)
    ELSE [stack |-> lookup(b, s, Len(s), op.addr).stack,
          err |-> lookup(b, s, Len(s), op.addr).err]

EvalOpAct ==
    /\ CanStep
    /\ \E op \in EvalOps(run.storages) :
          LET r == ApplyOp(base, stack, op)
          IN /\ stack' = r.stack
             /\ result' = Done(r, op)
    /\ UNCHANGED <<base, run, replay, cad>>

BuildDeltaAct ==
    /\ CanStep
    /\ \E aidx \in AppIndexes, txn \in run.txns :
          \E r \in BuildDelta(stack[Len(stack)], aidx, txn) :
             result' = Done(r, [op |-> "BuildDelta", aidx |-> aidx, txn |-> txn])
                          @@ [evalDelta |-> r.evalDelta]
    /\ UNCHANGED <<base, stack, run, replay, cad>>

NextBuild ==
    \/ EvalOpAct
    \/ BuildDeltaAct

SpecBuild == InitBuild /\ [][NextBuild]_vars

---------------------------------------------------------------------------
(* C23: BuildDelta(aidx, txn) fails and returns the empty EvalDelta        *)
(* whenever the node holds a storage delta of an app other than aidx       *)
(* (CROSS_APP_DELTA) or more than one global storage delta                 *)
(* (MULTIPLE_GLOBAL_DELTA); when only one of the two is the case and every *)
(* local address has an index, the error is that one.                      *)

CrossApp(sds, aidx) == \E st \in DOMAIN sds : st.aidx # aidx

ManyGlobals(sds) == Cardinality({ st \in DOMAIN sds : st.global }) > 1

NoIndex(sds, txn) ==
    \E st \in DOMAIN sds :
       ~st.global /\ IndexByAddress(txn, st.addr, txn.Sender).err # NoErr

C23_BuildDeltaFails ==
    result.op = "BuildDelta" =>
        LET sds == stack[top].sdeltas
            cross == CrossApp(sds, result.args.aidx)
            many == ManyGlobals(sds)
        IN /\ (cross \/ many) =>
                 /\ result.err \in {ErrCrossApp, ErrMultipleGlobal, ErrInvalidAccount}
                 /\ result.evalDelta = ZeroEvalDelta
           /\ (cross /\ ~many /\ ~NoIndex(sds, result.args.txn)) => result.err = ErrCrossApp
           /\ (many /\ ~cross /\ ~NoIndex(sds, result.args.txn))
                 => result.err = ErrMultipleGlobal

\* BuildDelta on a node that holds two global storage deltas of the app, and
\* nothing else that makes it fail
C23_Witness ==
    /\ result.op = "BuildDelta"
    /\ ManyGlobals(stack[top].sdeltas)
    /\ ~CrossApp(stack[top].sdeltas, result.args.aidx)
    /\ ~NoIndex(stack[top].sdeltas, result.args.txn)
    /\ result.err = ErrMultipleGlobal
    /\ result.evalDelta = ZeroEvalDelta

---------------------------------------------------------------------------
(* C24: a BuildDelta that succeeds holds the serialized delta of every     *)
(* local storage delta of an address under the index IndexByAddress gives  *)
(* the address (0 for the sender) and the serialized global one in         *)
(* GlobalDelta; distinct addresses have distinct indexes, so that there    *)
(* are as many local deltas as local storage deltas; and BuildDelta fails  *)
(* when IndexByAddress fails, with its error when nothing else fails.      *)

LocalsOf(sds) == { st \in DOMAIN sds : ~st.global }

C24_BuildDeltaPlaces ==
    result.op = "BuildDelta" =>
        LET sds == stack[top].sdeltas
            txn == result.args.txn
            delta == result.evalDelta
            Index(st) == IndexByAddress(txn, st.addr, txn.Sender)
        IN /\ result.err = NoErr =>
                 /\ \A st \in DOMAIN sds :
                       IF st.global
                       THEN delta.GlobalDelta = stateDeltaSerialize(sds[st].kvCow)
                       ELSE /\ Index(st).err = NoErr
                            /\ Index(st).idx \in DOMAIN delta.LocalDeltas
                            /\ delta.LocalDeltas[Index(st).idx]
                                  = stateDeltaSerialize(sds[st].kvCow)
                            /\ st.addr = txn.Sender <=> Index(st).idx = 0
                 /\ \A s1, s2 \in LocalsOf(sds) :
                       s1.addr # s2.addr => Index(s1).idx # Index(s2).idx
                 /\ Cardinality(DOMAIN delta.LocalDeltas) = Cardinality(LocalsOf(sds))
                 /\ (\A st \in DOMAIN sds : ~st.global) => delta.GlobalDelta = EmptyMap
           /\ NoIndex(sds, txn) =>
                 /\ result.err # NoErr
                 /\ result.evalDelta = ZeroEvalDelta
                 /\ (~CrossApp(sds, result.args.aidx) /\ ~ManyGlobals(sds))
                       => result.err = ErrInvalidAccount

\* A BuildDelta that succeeded on a node with a global storage delta and
\* two local ones, the sender's and another address's, whose serialized
\* deltas differ
C24_Witness ==
    /\ result.op = "BuildDelta"
    /\ result.err = NoErr
    /\ result.evalDelta.GlobalDelta # EmptyMap
    /\ \E s1, s2 \in LocalsOf(stack[top].sdeltas) :
          /\ s1.addr = result.args.txn.Sender
          /\ s2.addr # s1.addr
          /\ result.evalDelta.LocalDeltas[0] # EmptyMap
          /\ \E i \in (DOMAIN result.evalDelta.LocalDeltas) \ {0} :
                /\ result.evalDelta.LocalDeltas[i] # EmptyMap
                /\ result.evalDelta.LocalDeltas[i] # result.evalDelta.LocalDeltas[0]

---------------------------------------------------------------------------
(* StatefulEval *)

MaxProgramLen == 2     \* calls one program makes on its ledger
MaxStepsEval == 3      \* operations in one run of SpecEval

ErrLedger == "LEDGER_ERROR"
ErrEval == "EVAL_ERROR"

\* What the evaluator does with the ledger it is given: makeLogicLedger
\* fails, or the program makes its calls and ends with a verdict
EvalRuns(ops) ==
    { [ledgerErr |-> ErrLedger, program |-> <<>>, verdict |-> "error"] }
       \cup { [ledgerErr |-> NoErr, program |-> p, verdict |-> v] :
                 p \in UNION { [1..n -> ops] : n \in 0..MaxProgramLen },
                 v \in {"pass", "reject", "error"} }

\* The chain after the calls i.. of the program on its last node, and the
\* error of the first call that failed, at which the program stops
RECURSIVE RunProgram(_, _, _, _)
RECURSIVE RunFrom(_, _, _, _)

\* The program after its call i returned r
RunFrom(b, r, program, i) ==
    IF r.err # NoErr THEN r
    ELSE RunProgram(b, r.stack, program, i + 1)

RunProgram(b, s, program, i) ==
    IF i > Len(program) THEN [stack |-> s, err |-> NoErr]
    ELSE RunFrom(b, ApplyOp(b, s, program[i]), program, i)

\* What the evaluator returns when its program ran as r
EvalVerdict(r, eval) ==
    [stack |-> r.stack,
     pass |-> r.err = NoErr /\ eval.verdict = "pass",
     err |-> IF r.err # NoErr THEN r.err
             ELSE IF eval.verdict = "error" THEN ErrEval
             ELSE NoErr]

\* logic.EvalStateful(program, params) on the ledger of the last node
EvalStateful(b, s, eval) == EvalVerdict(RunProgram(b, s, eval.program, 1), eval)

\* What StatefulEval returns without a commit: the calf is dropped; stack is
\* the chain without it
EvalReturns(s, calf, pass, err) ==
    [stack |-> s, pass |-> pass, evalDelta |-> ZeroEvalDelta, err |-> err,
     calf |-> calf, committed |-> FALSE]

\* What StatefulEval returns with the commit c of the calf
EvalCommits(c, calf, evalDelta) ==
    [stack |-> c.stack, pass |-> TRUE, evalDelta |-> evalDelta,
     err |-> c.err, calf |-> calf, committed |-> TRUE]

\* StatefulEval on the chain s once the evaluator returned ev: the calf is
\* the last node of ev.stack
AfterEval(s, aidx, txn, eval, ev) ==
    LET calf == ev.stack[Len(ev.stack)]
        parent == SubSeq(ev.stack, 1, Len(s))
    IN IF eval.ledgerErr # NoErr
       THEN {EvalReturns(s, EmptyNode(s[Len(s)].CompactCertNext), FALSE, eval.ledgerErr)}
       ELSE IF ev.err # NoErr THEN {EvalReturns(parent, calf, FALSE, ev.err)}
       ELSE IF ~ev.pass THEN {EvalReturns(parent, calf, FALSE, NoErr)}
       ELSE { IF bd.err # NoErr
              THEN EvalReturns(parent, calf, FALSE, bd.err)
              ELSE EvalCommits(commitToParent(ev.stack), calf, bd.evalDelta) :
                 bd \in BuildDelta(calf, aidx, txn) }

\* Mutant: the calf is committed before the error of BuildDelta is looked at
StatefulEvalCommitsFirst(b, s, aidx, txn, eval) ==
    LET committed ==
            { [r EXCEPT !.stack = commitToParent(Append(r.stack, r.calf)).stack,
                        !.committed = TRUE] :
                r \in { q \in AfterEval(s, aidx, txn, eval, EvalStateful(b, child(s), eval)) :
                           q.err \in {ErrCrossApp, ErrMultipleGlobal, ErrInvalidAccount} } }
    IN committed
          \cup { q \in AfterEval(s, aidx, txn, eval, EvalStateful(b, child(s), eval)) :
                    q.err \notin {ErrCrossApp, ErrMultipleGlobal, ErrInvalidAccount} }

\* cb.StatefulEval(params, aidx, program) for the last node cb of the chain:
\* every (pass, evalDelta, err) it can return, with the chain after the
\* call, the calf as the evaluator left it and whether it was committed
StatefulEval(b, s, aidx, txn, eval) ==
    AfterEval(s, aidx, txn, eval, EvalStateful(b, child(s), eval))

\* Mutant: a StatefulEval on the root node that commits its calf writes the
\* keys of the calf through to the base
StatefulEvalActWritesThrough ==
    /\ CanStep
    /\ \E aidx \in AppIndexes, txn \in run.txns, eval \in EvalRuns(EvalOps(run.storages)) :
          \E r \in StatefulEval(base, stack, aidx, txn, eval) :
             /\ stack' = r.stack
             /\ result' = Done(r, [op |-> "StatefulEval", aidx |-> aidx, txn |-> txn,
                                   eval |-> eval])
                             @@ [pass |-> r.pass, evalDelta |-> r.evalDelta,
                                 calf |-> r.calf, committed |-> r.committed]
             /\ base' = IF r.committed /\ Len(stack) = 1
                        THEN [base EXCEPT !.kv =
                                [st \in DOMAIN base.kv |->
                                   IF st \in DOMAIN r.calf.sdeltas
                                   THEN [k \in DOMAIN r.calf.sdeltas[st].kvCow |->
                                           r.calf.sdeltas[st].kvCow[k].new]
                                   ELSE base.kv[st]]]
                        ELSE base
    /\ UNCHANGED <<run, replay, cad>>

StatefulEvalAct ==
    /\ CanStep
    /\ \E aidx \in AppIndexes, txn \in run.txns, eval \in EvalRuns(EvalOps(run.storages)) :
          \E r \in StatefulEval(base, stack, aidx, txn, eval) :
             /\ stack' = r.stack
             /\ result' = Done(r, [op |-> "StatefulEval", aidx |-> aidx, txn |-> txn,
                                   eval |-> eval])
                             @@ [pass |-> r.pass, evalDelta |-> r.evalDelta,
                                 calf |-> r.calf, committed |-> r.committed]
    /\ UNCHANGED <<base, run, replay, cad>>

InitStatefulEval ==
    InitEval({GlobalStorage}, {[Sender |-> "A1", Accounts |-> <<"A2">>]}, MaxStepsEval)

NextEval ==
    \/ EvalOpAct
    \/ BuildDeltaAct
    \/ StatefulEvalAct
    \/ ChildAct
    \/ CommitAct
    \/ DropAct

SpecEval == InitStatefulEval /\ [][NextEval]_vars

---------------------------------------------------------------------------
(* C25: StatefulEval and the node it is called on.                         *)

\* The evaluator passed without error and BuildDelta succeeded
EvalPassed(r) == r.pass /\ r.err = NoErr

\* The node without its getPadCache
Mods(node) == [node EXCEPT !.getPadCache = EmptyMap]

---------------------------------------------------------------------------
(* The state machine of the storage operations over a base some of whose   *)
(* methods fail                                                            *)

MaxStepsFaulty == 3    \* operations in one run of SpecFaulty

InitFaulty ==
    /\ \E f \in BaseStorage, fail \in SUBSET BaseMethods :
          base = [MakeBase(f) EXCEPT !.fail = fail]
    /\ stack = <<EmptyNode(0)>>
    /\ result = [op |-> "init", err |-> NoErr, steps |-> 0]
    /\ run = [storages |-> {GlobalStorage}, limit |-> MaxStepsFaulty, track |-> FALSE]
    /\ replay = <<>>
    /\ cad = EmptyCompactDeltas

SpecFaulty == InitFaulty /\ [][Next]_vars

---------------------------------------------------------------------------
(* C26: parent errors are surfaced.  When a call to the parent interface   *)
(* made during getKey, SetKey, DelKey, Allocate or Deallocate returns an   *)
(* error, the operation returns that error.                                *)

\* The error of the first call to the parent that fails during SetKey, past
\* its length checks, or DelKey of key on the last node of s: the calls are
\* those of allocated, getKey and ensureStorageDelta
WriteParentErr(b, s, st, key) ==
    LET a == allocated(b, s, Len(s), st)
        old == getKey(b, s, Len(s), st, key)
    IN IF a.err # NoErr THEN a.err
       ELSE IF ~a.ok THEN NoErr
       ELSE IF old.err # NoErr THEN old.err
       ELSE ensureStorageDelta(b, s, st, remainAllocAction).err

\* The same for Allocate (want = FALSE) and Deallocate (want = TRUE), which
\* go on to ensureStorageDelta when allocated answers want
AllocParentErr(b, s, st, want) ==
    LET a == allocated(b, s, Len(s), st)
    IN IF a.err # NoErr THEN a.err
       ELSE IF a.ok # want THEN NoErr
       ELSE ensureStorageDelta(b, s, st, allocAction).err

\* The error of the parent during the operation the step made
StepParentErr ==
    LET args == result'.args IN
    IF args.op = "SetKey"
    THEN IF KeyTooLong \/ ValueTooLong THEN NoErr
         ELSE WriteParentErr(base, stack, args.st, args.key)
    ELSE IF args.op = "DelKey" THEN WriteParentErr(base, stack, args.st, args.key)
    ELSE IF args.op = "Allocate" THEN AllocParentErr(base, stack, args.st, FALSE)
    ELSE AllocParentErr(base, stack, args.st, TRUE)

\* getKey on the node at d asks its parent
GetKeyAsksParent(d, st, key) ==
    LET sds == stack[d].sdeltas IN
    \/ st \notin DOMAIN sds
    \/ key \notin DOMAIN sds[st].kvCow /\ sds[st].action = remainAllocAction

C26_GetKeySurfaces ==
    \A d \in 1..Len(stack), st \in run.storages, key \in Keys :
       LET a == allocated(base, stack, d, st)
           below == getKey(base, stack, d - 1, st, key)
           got == getKey(base, stack, d, st, key)
       IN /\ a.err # NoErr => got.err = a.err
          /\ (a.err = NoErr /\ a.ok /\ GetKeyAsksParent(d, st, key) /\ below.err # NoErr)
                => got.err = below.err

C26_ParentErrorsSurfaced ==
    /\ []C26_GetKeySurfaces
    /\ [][(result'.op \in StorageOps /\ StepParentErr # NoErr)
             => result'.err = StepParentErr]_vars

---------------------------------------------------------------------------
(* The state machine of the account operations: lookup and put without     *)
(* creatables, child, commitToParent and drop                              *)

MaxStepsAccts == 8     \* operations in one run of SpecAccts

InitAccts ==
    InitWith({ f \in BaseStorage : ~f.alloc }, {}, MaxStepsAccts, FALSE)

PutDataAct ==
    /\ CanStep
    /\ \E addr \in Addrs, new \in AccountDatas :
          LET r == put(stack, addr, new, Nil, Nil)
          IN /\ stack' = r.stack
             /\ result' = Done(r, [op |-> "put", addr |-> addr, new |-> new,
                                   newCreatable |-> Nil, deletedCreatable |-> Nil])
    /\ UNCHANGED <<base, run, replay, cad>>

NextAccts ==
    \/ ChildAct
    \/ CommitAct
    \/ DropAct
    \/ LookupAct
    \/ PutDataAct

SpecAccts == InitAccts /\ [][NextAccts]_vars

---------------------------------------------------------------------------
(* C27: account reads and commit.  lookup(addr) on a node returns the      *)
(* record of the most recent put(addr) made on the node or committed into  *)
(* it, else what the parent's lookup returns; after commitToParent every   *)
(* address put in the child reads on the parent as the child's record, and *)
(* the parent's getPadCache holds the child's entry for every address the  *)
(* child cached.                                                           *)

\* The record lookup(addr) returns on the node at d of the chain s
Record(b, s, d, addr) == lookup(b, s, d, addr).pad

\* A node answers with its own record of an address, and with its parent's
\* answer for an address it holds no record of; a put that succeeded reads
\* back, made of the cached record and the new data
C27_Lookup ==
    /\ \A d \in 1..Len(stack), addr \in Addrs :
          /\ lookup(base, stack, d, addr).err = NoErr
          /\ Record(base, stack, d, addr)
                = IF addr \in DOMAIN stack[d].Accts THEN stack[d].Accts[addr]
                  ELSE Record(base, stack, d - 1, addr)
    /\ Succeeded("put") =>
          Record(base, stack, top, result.args.addr)
             = [stack[top].getPadCache[result.args.addr]
                  EXCEPT !.AccountData = result.args.new]

\* The record of a node changes only by a put of the address on the node or
\* by the commit of a child that holds a record of the address
C27_LookupFrame ==
    \A d \in 1..Len(stack), addr \in Addrs :
       (d <= Len(stack') /\ Record(base', stack', d, addr) # Record(base, stack, d, addr))
          => \/ /\ d = Len(stack)
                /\ result'.op = "put"
                /\ result'.args.addr = addr
             \/ /\ CommittedInto(d)
                /\ addr \in DOMAIN stack[Len(stack)].Accts

\* The commit of the last node, seen from the node it is committed into
C27_Commit ==
    result'.op = "commitToParent" =>
       LET cb == stack[Len(stack)]
           p == Len(stack')
       IN /\ \A addr \in DOMAIN cb.Accts :
                Record(base', stack', p, addr) = cb.Accts[addr]
          /\ \A addr \in DOMAIN cb.getPadCache :
                /\ addr \in DOMAIN stack'[p].getPadCache
                /\ stack'[p].getPadCache[addr] = cb.getPadCache[addr]
          /\ \A addr \in (DOMAIN stack[p].getPadCache) \ (DOMAIN cb.getPadCache) :
                stack'[p].getPadCache[addr] = stack[p].getPadCache[addr]

C27_AccountReads ==
    /\ []C27_Lookup
    /\ [][C27_LookupFrame /\ C27_Commit]_vars

\* A child was committed whose record of an address replaced a different
\* record the parent held of its own, and whose cached entry of the address
\* replaced the parent's
C27_Witness ==
    /\ result.op = "commitToParent"
    /\ \E addr \in DOMAIN stack[top].Accts :
          /\ Record(base, stack, top, addr).AccountData # 0
          /\ stack[top].getPadCache[addr].AccountData # 0
          /\ stack[top].getPadCache[addr].AccountData
                # Record(base, stack, top, addr).AccountData

---------------------------------------------------------------------------
(* C28: the base is never written.  No operation of the chain, the commit  *)
(* into the root node and StatefulEval included, changes what the base     *)
(* returns for any read; a commit changes only the node committed into,    *)
(* and StatefulEval the modifications of the node it is called on only.    *)

C28_BaseReadOnly ==
    [][/\ Reads(base', stack', 0) = Reads(base, stack, 0)
       /\ base' = base
       /\ result'.op = "commitToParent" =>
             \A d \in 1..(Len(stack) - 2) : stack'[d] = stack[d]
       /\ result'.op = "StatefulEval" =>
             \A d \in 1..(Len(stack) - 1) : Mods(stack'[d]) = Mods(stack[d])]_vars

\* A child was committed into the root node, which now reads a key
\* differently from the base
C28_Witness ==
    /\ result.op = "commitToParent"
    /\ top = 1
    /\ \E st \in DOMAIN stack[1].sdeltas, key \in Keys :
          KeyView(base, stack, 1, st, key) # KeyView(base, stack, 0, st, key)

---------------------------------------------------------------------------
(* The compact account deltas as a state machine: cad is built from the    *)
(* rounds once, or starts empty, and is then changed by its operations     *)

MaxStepsCompact == 4   \* operations in one run on the compact deltas
MaxRounds == 2         \* rounds handed to makeCompactAccountDeltas

NoEntityDeltas == [holdings |-> {EmptyMap}, params |-> {EmptyMap}]

\* The updates a round can hold: the record an address is upserted with and
\* the actions on its holdings and params
CompactUpdates(ents) ==
    { [addr |-> addr, new |-> new, holdings |-> h, params |-> p] :
        addr \in Addrs, new \in AccountDatas,
        h \in ents.holdings, p \in ents.params }

\* ledgercore.AccountDeltas: the updates of one round, one for an address
CompactRound(ents) ==
    { r \in UNION { [1..n -> CompactUpdates(ents)] : n \in 0..Cardinality(Addrs) } :
        \A i, j \in DOMAIN r : r[i].addr = r[j].addr => i = j }

CompactRounds(n, ents) == UNION { [1..k -> CompactRound(ents)] : k \in 0..n }

\* The LRU holds the record 1 for the addresses it holds
BaseAccounts == { [a \in S |-> dbAccountData(a, 1)] : S \in SUBSET Addrs }

\* The deltas the operations are called with
SampleDeltas ==
    { [ZeroAccountDelta EXCEPT !.old = old, !.new = new] :
        old \in {ZeroDbAccountData} \cup { dbAccountData(a, 1) : a \in Addrs },
        new \in AccountDatas }

SampleOlds == { dbAccountData(a, pad) : a \in Addrs, pad \in AccountDatas }

InitCompactWith(rounds, ents, limit) ==
    /\ base = FreshBase
    /\ stack = <<EmptyNode(0)>>
    /\ result = [op |-> "init", err |-> NoErr, steps |-> 0]
    /\ run = [storages |-> {}, limit |-> limit, track |-> FALSE,
              rounds |-> rounds, entities |-> ents]
    /\ replay = <<>>
    /\ cad = EmptyCompactDeltas

InitCompact == InitCompactWith(MaxRounds, NoEntityDeltas, MaxStepsCompact)

MakeCompactAct ==
    /\ CanStep
    /\ result.op = "init"
    /\ \E rounds \in CompactRounds(run.rounds, run.entities),
          baseAccounts \in BaseAccounts :
          /\ cad' = makeCompactAccountDeltas(rounds, baseAccounts)
          /\ result' = Done([err |-> NoErr],
                            [op |-> "makeCompactAccountDeltas", rounds |-> rounds,
                             baseAccounts |-> baseAccounts])
    /\ UNCHANGED <<base, stack, run, replay>>

UpsertAct ==
    /\ CanStep
    /\ \E addr \in Addrs, delta \in SampleDeltas :
          /\ cad' = upsert(cad, addr, delta)
          /\ result' = Done([err |-> NoErr],
                            [op |-> "upsert", addr |-> addr, delta |-> delta])
    /\ UNCHANGED <<base, stack, run, replay>>

InsertAct ==
    /\ CanStep
    /\ \E addr \in Addrs, delta \in SampleDeltas :
          LET r == insert(cad, addr, delta) IN
          /\ cad' = r.a
          /\ result' = Done([err |-> NoErr],
                            [op |-> "insert", addr |-> addr, delta |-> delta,
                             idx |-> r.idx])
    /\ UNCHANGED <<base, stack, run, replay>>

UpdateAct ==
    /\ CanStep
    /\ \E idx \in 0..len(cad), delta \in SampleDeltas :
          LET r == update(cad, idx, delta) IN
          /\ cad' = r.a
          /\ result' = Done(r, [op |-> "update", idx |-> idx, delta |-> delta])
    /\ UNCHANGED <<base, stack, run, replay>>

UpsertOldAct ==
    /\ CanStep
    /\ \E old \in SampleOlds :
          /\ cad' = upsertOld(cad, old)
          /\ result' = Done([err |-> NoErr], [op |-> "upsertOld", old |-> old])
    /\ UNCHANGED <<base, stack, run, replay>>

UpdateOldAct ==
    /\ CanStep
    /\ \E idx \in 0..len(cad), old \in SampleOlds :
          LET r == updateOld(cad, idx, old) IN
          /\ cad' = r.a
          /\ result' = Done(r, [op |-> "updateOld", idx |-> idx, old |-> old])
    /\ UNCHANGED <<base, stack, run, replay>>

NextCompact ==
    \/ MakeCompactAct
    \/ UpsertAct
    \/ InsertAct
    \/ UpdateAct
    \/ UpsertOldAct
    \/ UpdateOldAct

SpecCompact == InitCompact /\ [][NextCompact]_vars

---------------------------------------------------------------------------
(* C29: compact account deltas hold each address once.  After              *)
(* makeCompactAccountDeltas over any rounds and after any sequence of      *)
(* upsert, insert, upsertOld, update and updateOld, every address has at   *)
(* most one entry, the entries keep the order in which their addresses     *)
(* first appeared, get(addr) returns the index i at which getByIdx(i) is   *)
(* the address and the same delta, get of an address without an entry      *)
(* returns -1 and the empty delta, and upsert of an address that has an    *)
(* entry overwrites the entry where it is and leaves len as it was.        *)

\* The positions of the entries of addr
Entries(a, addr) == { i \in 1..Len(a.addresses) : a.addresses[i] = addr }

\* The addresses of the updates in the order of their first appearance
RECURSIVE FirstSeen(_, _)
FirstSeen(updates, seen) ==
    IF updates = <<>> THEN <<>>
    ELSE IF Head(updates).addr \in seen THEN FirstSeen(Tail(updates), seen)
    ELSE <<Head(updates).addr>>
            \o FirstSeen(Tail(updates), seen \cup {Head(updates).addr})

C29_Once == \A addr \in Addrs : Cardinality(Entries(cad, addr)) <= 1

C29_Get ==
    /\ Len(cad.addresses) = len(cad)
    /\ \A addr \in Addrs :
          LET g == get(cad, addr) IN
          IF Entries(cad, addr) = {}
          THEN g.idx = -1 /\ g.delta = ZeroAccountDelta
          ELSE /\ g.idx \in 0..(len(cad) - 1)
               /\ getByIdx(cad, g.idx)
                     = [addr |-> addr, delta |-> g.delta, err |-> NoErr]

\* No operation moves or removes an entry, and the entries built from the
\* rounds are in the order in which the rounds first name their addresses
C29_Order ==
    /\ SubSeq(cad'.addresses, 1, Len(cad.addresses)) = cad.addresses
    /\ result'.op = "makeCompactAccountDeltas" =>
          cad'.addresses = FirstSeen(Flatten(result'.args.rounds), {})

C29_UpsertInPlace ==
    (result'.op = "upsert" /\ Entries(cad, result'.args.addr) # {}) =>
       /\ len(cad') = len(cad)
       /\ cad'.addresses = cad.addresses
       /\ cad'.deltas = [cad.deltas EXCEPT
                           ![get(cad, result'.args.addr).idx + 1] = result'.args.delta]

InsertOfPresent == result'.op = "insert" /\ Entries(cad, result'.args.addr) # {}

\* Each address keeps one entry at most through every operation but an
\* insert of an address that has an entry, which appends a second entry for
\* it that get returns from then on
C29_OnceKept ==
    /\ (C29_Once /\ ~InsertOfPresent) => C29_Once'
    /\ InsertOfPresent =>
          /\ len(cad') = len(cad) + 1
          /\ Entries(cad', result'.args.addr)
                = Entries(cad, result'.args.addr) \cup {len(cad')}
          /\ get(cad', result'.args.addr).idx = len(cad)

---------------------------------------------------------------------------
(* makeCompactAccountDeltas alone, over longer sequences of rounds         *)

MaxRoundsMake == 3     \* rounds handed to makeCompactAccountDeltas

InitMakeCompact == InitCompactWith(MaxRoundsMake, NoEntityDeltas, 1)

NextMakeCompact == MakeCompactAct

SpecMakeCompact == InitMakeCompact /\ [][NextMakeCompact]_vars

---------------------------------------------------------------------------
(* C30: compaction keeps the final record.  For every address that the     *)
(* rounds touch, the one entry of the address holds as new the record the  *)
(* last round that touches the address upserts; the records of the rounds  *)
(* before it are in no entry of the address, and an address that no round  *)
(* touches has no entry.                                                   *)

\* The rounds that upsert addr
TouchedIn(rounds, addr) ==
    { k \in DOMAIN rounds : \E i \in DOMAIN rounds[k] : rounds[k][i].addr = addr }

\* The record round upserts addr with
RecordIn(round, addr) ==
    round[CHOOSE i \in DOMAIN round : round[i].addr = addr].new

LastOf(S) == CHOOSE k \in S : \A j \in S : j <= k

C30_FinalRecord ==
    result.op = "makeCompactAccountDeltas" =>
       \A addr \in Addrs :
          LET rounds == result.args.rounds
              touched == TouchedIn(rounds, addr)
          IN IF touched = {} THEN Entries(cad, addr) = {}
             ELSE /\ Cardinality(Entries(cad, addr)) = 1
                  /\ get(cad, addr).delta.new
                        = RecordIn(rounds[LastOf(touched)], addr)
                  /\ \A i \in Entries(cad, addr) :
                        cad.deltas[i].new = RecordIn(rounds[LastOf(touched)], addr)

\* Three rounds upsert A1, the second with another record than the first
\* and the third, and the entry holds the record of the third
C30_Witness ==
    /\ result.op = "makeCompactAccountDeltas"
    /\ TouchedIn(result.args.rounds, "A1") = {1, 2, 3}
    /\ RecordIn(result.args.rounds[2], "A1") # RecordIn(result.args.rounds[3], "A1")
    /\ RecordIn(result.args.rounds[1], "A1") = RecordIn(result.args.rounds[3], "A1")
    /\ get(cad, "A1").delta.new = RecordIn(result.args.rounds[3], "A1")
    /\ get(cad, "A1").delta.new # RecordIn(result.args.rounds[2], "A1")

---------------------------------------------------------------------------
(* makeCompactAccountDeltas over rounds that create and delete holdings    *)
(* and params of the accounts they upsert                                  *)

MaxRoundsEntity == 3   \* rounds with entity actions

HoldingIds == {3, 5}   \* the assets whose holdings the rounds create and delete
ParamIds == {10}       \* the assets whose params the rounds create and delete

\* ledgercore.EntityDelta: the actions of one round on the creatables ids
EntityDeltasOver(ids, actions) ==
    UNION { [S -> actions] : S \in SUBSET ids }

EntityDeltas ==
    [holdings |-> EntityDeltasOver(HoldingIds, {ActionHoldingCreate, ActionHoldingDelete}),
     params |-> EntityDeltasOver(ParamIds, {ActionParamsCreate, ActionParamsDelete})]

\* Rounds that upsert one account at most, with the record 1
EntityRounds(n, ents) ==
    LET updates == { u \in CompactUpdates(ents) : u.new = 1 }
        round == {<<>>} \cup { <<u>> : u \in updates }
    IN UNION { [1..k -> round] : k \in 0..n }

InitEntities == InitCompactWith(MaxRoundsEntity, EntityDeltas, 1)

MakeCompactEntitiesAct ==
    /\ CanStep
    /\ result.op = "init"
    /\ \E rounds \in EntityRounds(run.rounds, run.entities) :
          /\ cad' = makeCompactAccountDeltas(rounds, EmptyMap)
          /\ result' = Done([err |-> NoErr],
                            [op |-> "makeCompactAccountDeltas", rounds |-> rounds,
                             baseAccounts |-> EmptyMap])
    /\ UNCHANGED <<base, stack, run, replay>>

NextEntities == MakeCompactEntitiesAct

SpecEntities == InitEntities /\ [][NextEntities]_vars

---------------------------------------------------------------------------
(* C31: compaction of creatable actions.  For every address, the compacted *)
(* createdDeletedHoldings and createdDeletedParams hold entries only for   *)
(* the creatables the rounds act on, an entry is the last action of the    *)
(* rounds on the creatable, a creatable on which all actions are the same  *)
(* keeps its entry, and a creatable that the rounds create and delete in   *)
(* turn has an entry exactly when the number of these actions is odd: a    *)
(* CREATE followed by a DELETE, or the reverse, leaves no entry.           *)

\* The actions of the rounds on the creatable c of addr, in the order of
\* the rounds; field is "holdings" or "params"
RECURSIVE ActionsOn(_, _, _, _)
ActionsOn(rounds, addr, field, c) ==
    IF rounds = <<>> THEN <<>>
    ELSE LET hits == { i \in DOMAIN Head(rounds) :
                          /\ Head(rounds)[i].addr = addr
                          /\ c \in DOMAIN Head(rounds)[i][field] }
         IN (IF hits = {} THEN <<>>
             ELSE <<Head(rounds)[CHOOSE i \in hits : TRUE][field][c]>>)
               \o ActionsOn(Tail(rounds), addr, field, c)

Alternating(s) == \A i \in 1..(Len(s) - 1) : s[i + 1] = Opposite(s[i])

Constant(s) == \A i \in 1..Len(s) : s[i] = s[1]

\* m is the compaction of the actions of the rounds on the creatables ids
CompactionOf(m, rounds, addr, field, ids) ==
    /\ DOMAIN m \subseteq ids
    /\ \A c \in ids :
          LET s == ActionsOn(rounds, addr, field, c) IN
          /\ s = <<>> => c \notin DOMAIN m
          /\ c \in DOMAIN m => m[c] = s[Len(s)]
          /\ (s # <<>> /\ Constant(s)) => c \in DOMAIN m
          /\ (s # <<>> /\ Alternating(s)) => (c \in DOMAIN m <=> Len(s) % 2 = 1)

C31_EntityActions ==
    result.op = "makeCompactAccountDeltas" =>
       \A addr \in Addrs :
          Entries(cad, addr) # {} =>
             LET d == get(cad, addr).delta IN
             /\ CompactionOf(d.createdDeletedHoldings, result.args.rounds,
                             addr, "holdings", HoldingIds)
             /\ CompactionOf(d.createdDeletedParams, result.args.rounds,
                             addr, "params", ParamIds)

\* The rounds create the holding 5 of A1 and then delete it, and create its
\* holding 3 and its params 10: the entry holds the holding 3 and the params
C31_Witness ==
    /\ result.op = "makeCompactAccountDeltas"
    /\ ActionsOn(result.args.rounds, "A1", "holdings", 5)
          = <<ActionHoldingCreate, ActionHoldingDelete>>
    /\ ActionsOn(result.args.rounds, "A1", "holdings", 3) = <<ActionHoldingCreate>>
    /\ ActionsOn(result.args.rounds, "A1", "params", 10) = <<ActionParamsCreate>>
    /\ get(cad, "A1").delta.createdDeletedHoldings
          = [c \in {3} |-> ActionHoldingCreate]
    /\ get(cad, "A1").delta.createdDeletedParams
          = [c \in {10} |-> ActionParamsCreate]

---------------------------------------------------------------------------
(* C32: the old records.  makeCompactAccountDeltas gives the entry of an   *)
(* address the record the baseAccounts LRU holds of it and lists the index *)
(* of the entry in misses exactly when the LRU holds none; upsertOld and   *)
(* updateOld change the old record of one entry and nothing else, and      *)
(* upsertOld of an address without an entry appends an entry that carries  *)
(* the old record only.                                                    *)

C32_Attached ==
    result.op = "makeCompactAccountDeltas" =>
       /\ \A i \in 1..Len(cad.misses) :
             /\ cad.misses[i] \in 0..(len(cad) - 1)
             /\ \A j \in 1..Len(cad.misses) : cad.misses[i] = cad.misses[j] => i = j
       /\ \A addr \in Addrs :
             Entries(cad, addr) # {} =>
                LET g == get(cad, addr)
                    missed == \E i \in 1..Len(cad.misses) : cad.misses[i] = g.idx
                IN IF addr \in DOMAIN result.args.baseAccounts
                   THEN g.delta.old = result.args.baseAccounts[addr] /\ ~missed
                   ELSE g.delta.old = ZeroDbAccountData /\ missed

\* The entries of cad' are those of cad but for the old record of entry i,
\* which is old
OnlyOldChanged(i, old) ==
    /\ cad'.addresses = cad.addresses
    /\ cad'.cache = cad.cache
    /\ cad'.misses = cad.misses
    /\ len(cad') = len(cad)
    /\ \A j \in 1..len(cad) :
          /\ cad'.deltas[j].new = cad.deltas[j].new
          /\ cad'.deltas[j].createdDeletedHoldings = cad.deltas[j].createdDeletedHoldings
          /\ cad'.deltas[j].createdDeletedParams = cad.deltas[j].createdDeletedParams
          /\ cad'.deltas[j].old = IF j = i THEN old ELSE cad.deltas[j].old

C32_OldOnly ==
    /\ result'.op = "upsertOld" =>
          LET old == result'.args.old IN
          IF Entries(cad, old.addr) # {}
          THEN OnlyOldChanged(get(cad, old.addr).idx + 1, old)
          ELSE /\ cad'.addresses = Append(cad.addresses, old.addr)
               /\ cad'.deltas = Append(cad.deltas, [ZeroAccountDelta EXCEPT !.old = old])
               /\ cad'.misses = cad.misses
               /\ get(cad', old.addr).idx = len(cad)
    /\ (result'.op = "updateOld" /\ result'.err = NoErr) =>
          OnlyOldChanged(result'.args.idx + 1, result'.args.old)

C32_OldRecords == []C32_Attached /\ [][C32_OldOnly]_vars

\* The rounds upserted A1, of which the LRU held no record, and upsertOld
\* then gave its entry the record read from the account table
C32_Witness ==
    /\ result.op = "upsertOld"
    /\ result.steps = 2
    /\ result.args.old.addr = "A1"
    /\ \E i \in 1..Len(cad.misses) : cad.misses[i] = get(cad, "A1").idx
    /\ get(cad, "A1").delta.old = result.args.old
    /\ get(cad, "A1").delta.new # ZeroAccountData

---------------------------------------------------------------------------
(* The state machine of the whole chain: the storage and account           *)
(* operations and setCompactCertNext, over a base that knows a compact     *)
(* cert round                                                              *)

MaxStepsChain == 4     \* operations in one run of SpecChain

\* The rounds setCompactCertNext is called with
CertRounds == {CurRound + 1, CurRound + 2}

InitChain ==
    /\ \E f \in { g \in BaseStorage : g.alloc /\ g.kv # EmptyMap } :
          base = [MakeBase(f) EXCEPT !.compactCertNext = CurRound]
    /\ stack = <<EmptyNode(0)>>
    /\ result = [op |-> "init", err |-> NoErr, steps |-> 0]
    /\ run = [storages |-> {GlobalStorage}, limit |-> MaxStepsChain, track |-> FALSE]
    /\ replay = <<>>
    /\ cad = EmptyCompactDeltas

SetCompactCertNextAct ==
    /\ CanStep
    /\ \E rnd \in CertRounds :
          /\ stack' = setCompactCertNext(stack, rnd)
          /\ result' = Done([err |-> NoErr], [op |-> "setCompactCertNext", rnd |-> rnd])
    /\ UNCHANGED <<base, run, replay, cad>>

NextChain ==
    \/ NextAll
    \/ SetCompactCertNextAct

SpecChain == InitChain /\ [][NextChain]_vars

---------------------------------------------------------------------------
(* C33: a freshly created child observes exactly its parent.  Right after  *)
(* child(), every read on the child (allocated, getKey, the storage counts *)
(* and limits, lookup, checkDup, txnCounter, getCreator, compactCertNext)  *)
(* returns what the read returned on the node the child was made from, the *)
(* child holds no modification, storage delta or cached record, and the    *)
(* nodes under it are as they were.                                        *)

---------------------------------------------------------------------------
(* C34: a SetKey that fails with the schema error leaves the node it was   *)
(* called on unchanged: getKey of the key and the storage counts on that   *)
(* node return afterwards what they returned before the call.              *)

C34_FailedSetKeyKeeps ==
    [][(result'.op = "SetKey" /\ result'.err = ErrSchemaExceeded) =>
          LET st == result'.args.st
              key == result'.args.key
          IN /\ getKey(base', stack', Len(stack'), st, key)
                   = getKey(base, stack, Len(stack), st, key)
             /\ getStorageCounts(base', stack', Len(stack'), st)
                   = getStorageCounts(base, stack, Len(stack), st)]_vars

---------------------------------------------------------------------------
(* C35: duplicate detection across the layers.  checkDup on a node never   *)
(* returns success for a txid that addTx recorded on the node or on a node *)
(* under it; addTx records the txid on the last node, a commit hands the   *)
(* txids of the child to the node it is committed into, and no node loses  *)
(* a txid while it is in the chain; after a child is dropped, checkDup on  *)
(* the nodes that remain returns what it returned before the child was     *)
(* dropped, so a txid recorded in the dropped child only is not rejected.  *)

TxLeases == { [Sender |-> t.Sender, Lease |-> t.Lease] : t \in Txns }

\* The txids recorded on the nodes 1..d of the chain s
RecordedUpTo(s, d) == UNION { DOMAIN s[i].Txids : i \in 1..d }

C35_Rejected ==
    \A d \in 1..Len(stack) :
       \A txid \in RecordedUpTo(stack, d), txl \in TxLeases :
          checkDup(base, stack, d, txid, txl) # NoErr

C35_Recorded ==
    /\ result'.op = "addTx" =>
          result'.args.txn.txid \in DOMAIN stack'[Len(stack')].Txids
    /\ result'.op = "commitToParent" =>
          DOMAIN stack[Len(stack)].Txids \subseteq DOMAIN stack'[Len(stack')].Txids
    /\ \A d \in 1..Len(stack') :
          d <= Len(stack) => DOMAIN stack[d].Txids \subseteq DOMAIN stack'[d].Txids
    /\ result'.op = "drop" =>
          \A d \in 0..Len(stack') :
             \A txn \in Txns, txl \in TxLeases :
                checkDup(base', stack', d, txn.txid, txl)
                   = checkDup(base, stack, d, txn.txid, txl)

C35_DuplicateDetection == []C35_Rejected /\ [][C35_Recorded]_vars

\* A child that recorded a txid the base does not know was committed, and
\* the node it was committed into rejects the txid
C35_Witness ==
    /\ result.op = "commitToParent"
    /\ \E txn \in Txns :
          /\ baseCheckDup(base, txn.txid, [Sender |-> txn.Sender, Lease |-> ZeroLease]) = NoErr
          /\ txn.txid \in DOMAIN stack[top].Txids
          /\ checkDup(base, stack, top, txn.txid, [Sender |-> txn.Sender, Lease |-> ZeroLease])
                = "TransactionInLedgerError"

---------------------------------------------------------------------------
(* The state machine of an evaluation that adds a transaction to the last  *)
(* node only after checkDup on that node accepted it.  replay[d] counts    *)
(* the addTx calls behind the node at d: a child starts with the count of  *)
(* the node it is made from and a commit hands its count on.               *)

MaxStepsTxns == 6      \* operations in one run of SpecTxns

InitTxns ==
    /\ \E known \in {EmptyMap, [i \in {1} |-> CurRound + 1]} :
          base = [FreshBase EXCEPT !.txids = known]
    /\ stack = <<EmptyNode(0)>>
    /\ result = [op |-> "init", err |-> NoErr, steps |-> 0]
    /\ run = [storages |-> {}, limit |-> MaxStepsTxns, track |-> TRUE]
    /\ replay = <<0>>
    /\ cad = EmptyCompactDeltas

CheckedAddTxAct ==
    /\ CanStep
    /\ \E txn \in Txns :
          /\ checkDup(base, stack, Len(stack), txn.txid,
                      [Sender |-> txn.Sender, Lease |-> txn.Lease]) = NoErr
          /\ stack' = addTx(stack, txn)
          /\ result' = Done([err |-> NoErr], [op |-> "addTx", txn |-> txn])
    /\ replay' = OnLast(replay[Len(replay)] + 1)
    /\ UNCHANGED <<base, run, cad>>

NextTxns ==
    \/ ChildAct
    \/ CommitAct
    \/ DropAct
    \/ CheckedAddTxAct

SpecTxns == InitTxns /\ [][NextTxns]_vars

---------------------------------------------------------------------------
(* C36: txnCounter is preserved by commit.  When every transaction is      *)
(* added only after checkDup accepted it, txnCounter on a node is the      *)
(* counter of the base plus the number of transactions added along the     *)
(* chain up to the node, and txnCounter on the parent after commitToParent *)
(* is txnCounter on the child just before the commit.                      *)

C36_Counts ==
    \A d \in 1..Len(stack) :
       txnCounter(base, stack, d) = baseTxnCounter(base) + replay[d]

C36_CommitKeeps ==
    result'.op = "commitToParent" =>
       txnCounter(base', stack', Len(stack')) = txnCounter(base, stack, Len(stack))

C36_TxnCounter == []C36_Counts /\ [][C36_CommitKeeps]_vars

\* A child that added a transaction to the one its parent had added was
\* committed: the parent counts both
C36_Witness ==
    /\ result.op = "commitToParent"
    /\ replay[top] = 2
    /\ Cardinality(DOMAIN stack[top].Txids) = 2
    /\ txnCounter(base, stack, top) = baseTxnCounter(base) + 2

---------------------------------------------------------------------------
(* C37: getCreator(cidx, ctype) on a node.  When the creatable map of the  *)
(* node holds cidx, the answer is the creator, found, if the entry is a    *)
(* creation of the type ctype, and not found otherwise, so that a deletion *)
(* on the node masks a creator the nodes under it or the base know; when   *)
(* the node holds no entry the answer is the parent's.  A put records its  *)
(* created and its deleted creatable on the last node, and after           *)
(* commitToParent the parent answers as the child did.                     *)

NotFound == [creator |-> "", ok |-> FALSE, err |-> NoErr]

Found(creator) == [creator |-> creator, ok |-> TRUE, err |-> NoErr]

C37_Answer ==
    \A d \in 1..Len(stack), cidx \in CreatableIndexes, ctype \in CreatableTypes :
       LET c == stack[d].Creatables IN
       getCreator(base, stack, d, cidx, ctype)
          = IF cidx \notin DOMAIN c THEN getCreator(base, stack, d - 1, cidx, ctype)
            ELSE IF c[cidx].Created /\ c[cidx].Ctype = ctype THEN Found(c[cidx].Creator)
            ELSE NotFound

C37_Step ==
    /\ (result'.op = "put" /\ result'.err = NoErr) =>
          LET new == result'.args.newCreatable
              del == result'.args.deletedCreatable
              n == Len(stack')
          IN /\ del # Nil =>
                   \A ctype \in CreatableTypes :
                      getCreator(base', stack', n, del.Index, ctype) = NotFound
             /\ (new # Nil /\ (del = Nil \/ del.Index # new.Index)) =>
                   \A ctype \in CreatableTypes :
                      getCreator(base', stack', n, new.Index, ctype)
                         = IF ctype = new.Type THEN Found(new.Creator) ELSE NotFound
    /\ result'.op = "commitToParent" =>
          \A cidx \in CreatableIndexes, ctype \in CreatableTypes :
             getCreator(base', stack', Len(stack'), cidx, ctype)
                = getCreator(base, stack, Len(stack), cidx, ctype)

C37_GetCreator == []C37_Answer /\ [][C37_Step]_vars

\* A child that deleted a creatable whose creator the base knows was
\* committed, and the node it was committed into does not find the creator
C37_Witness ==
    /\ result.op = "commitToParent"
    /\ \E cidx \in DOMAIN stack[top].Creatables, ctype \in CreatableTypes :
          /\ ~stack[top].Creatables[cidx].Created
          /\ baseGetCreator(base, cidx, ctype).ok
          /\ getCreator(base, stack, top, cidx, ctype) = NotFound

---------------------------------------------------------------------------
(* C38: put and the padCache.  put(addr) panics when the padCache of the   *)
(* node holds no record of addr and succeeds otherwise; every address of   *)
(* the account modifications of a node has a record in the padCache of the *)
(* node; a lookup that succeeds on a node that holds no modification of    *)
(* the address, and the commit of a child, leave the records the next put  *)
(* needs, so that a put that follows them does not panic.                  *)

C38_Cached ==
    \A d \in 1..Len(stack) : DOMAIN stack[d].Accts \subseteq DOMAIN stack[d].getPadCache

C38_Step ==
    /\ result'.op = "put" =>
          /\ result'.err = ErrPanic
                <=> result'.args.addr \notin DOMAIN stack[Len(stack)].getPadCache
          /\ result'.err = ErrPanic => stack' = stack
          /\ result'.err # ErrPanic =>
                /\ result'.err = NoErr
                /\ result'.args.addr \in DOMAIN stack'[Len(stack')].Accts
    /\ (result'.op = "lookup" /\ result'.err = NoErr) =>
          LET n == Len(stack')
              addr == result'.args.addr
          IN /\ addr \in (DOMAIN stack'[n].getPadCache) \cup (DOMAIN stack'[n].Accts)
             /\ put(stack', addr, 1, Nil, Nil).err = NoErr
    /\ result'.op = "commitToParent" =>
          \A addr \in (DOMAIN stack[Len(stack)].Accts)
                         \cup (DOMAIN stack[Len(stack)].getPadCache) :
             /\ addr \in DOMAIN stack'[Len(stack')].getPadCache
             /\ put(stack', addr, 1, Nil, Nil).err = NoErr

C38_PutNeedsCache == []C38_Cached /\ [][C38_Step]_vars

\* A child that looked an address up and put it was committed, and a put
\* of the address on the node it was committed into succeeds
C38_Witness ==
    /\ result.op = "commitToParent"
    /\ \E addr \in DOMAIN stack[top].Accts :
          /\ stack[top].Accts[addr].AccountData # 0
          /\ addr \in DOMAIN stack[top].getPadCache
          /\ put(stack, addr, 2, Nil, Nil).err = NoErr

---------------------------------------------------------------------------
(* Runs that look creatable data up over a base whose lookups can fail *)

MaxStepsLookup == 5    \* operations in one run of SpecLookup

LookupMethods == {"lookup", "lookupCreatableData"}

\* The account data the base holds for an address
BaseCreatableData(addr) ==
    IF addr = "A1"
    THEN CreatableData(GoMap((1 :> 1)), GoMap((1 :> 1)), GoMap(EmptyMap), NilMap)
    ELSE CreatableData(NilMap, GoMap(EmptyMap), GoMap((1 :> 1)), GoMap((1 :> 1)))

\* The account data that is put
PutCreatableDatas ==
    { CreatableData(GoMap(EmptyMap), GoMap(EmptyMap), GoMap(EmptyMap), GoMap(EmptyMap)),
      CreatableData(GoMap((1 :> 2)), NilMap, GoMap(EmptyMap), GoMap((1 :> 2))) }

InitLookup ==
    /\ \E f \in { g \in BaseStorage : ~g.alloc /\ g.kv = EmptyMap } :
          base = [MakeBase(f) EXCEPT
                    !.accts = [a \in Addrs |->
                                 [AccountData |-> BaseCreatableData(a), row |-> a]]]
    /\ stack = <<EmptyNode(0)>>
    /\ result = [op |-> "init", err |-> NoErr, steps |-> 0]
    /\ run = [storages |-> {}, limit |-> MaxStepsLookup, track |-> FALSE]
    /\ replay = <<>>
    /\ cad = EmptyCompactDeltas

LookupCreatableDataAct ==
    /\ CanStep
    /\ \E addr \in Addrs, cidx \in CreatableIndexes, ctype \in CreatableTypes,
          global \in BOOLEAN, local \in BOOLEAN :
          LET r == lookupCreatableData(base, stack, Len(stack), addr, cidx, ctype,
                                       global, local)
          IN /\ stack' = r.stack
             /\ result' = Done(r, [op |-> "lookupCreatableData", addr |-> addr,
                                   cidx |-> cidx, ctype |-> ctype,
                                   global |-> global, local |-> local])
    /\ UNCHANGED <<base, run, replay, cad>>

PutCreatableDataAct ==
    /\ CanStep
    /\ \E addr \in Addrs, new \in PutCreatableDatas :
          LET r == put(stack, addr, new, Nil, Nil)
          IN /\ stack' = r.stack
             /\ result' = Done(r, [op |-> "put", addr |-> addr, new |-> new,
                                   newCreatable |-> Nil, deletedCreatable |-> Nil])
    /\ UNCHANGED <<base, run, replay, cad>>

\* The lookups of the base start or stop failing
BaseFaultAct ==
    /\ CanStep
    /\ \E fail \in SUBSET LookupMethods :
          /\ fail # base.fail
          /\ base' = [base EXCEPT !.fail = fail]
          /\ result' = Done([err |-> NoErr], [op |-> "fault", fail |-> fail])
    /\ UNCHANGED <<stack, run, replay, cad>>

NextLookup ==
    \/ ChildAct
    \/ CommitAct
    \/ DropAct
    \/ LookupAct
    \/ LookupCreatableDataAct
    \/ PutCreatableDataAct
    \/ BaseFaultAct

SpecLookup == InitLookup /\ [][NextLookup]_vars

(* C39: when the call a node's lookup or lookupCreatableData makes to its   *)
(* parent returns an error, the node's call returns that error and the      *)
(* getPadCache of the node is as it was before the call, whether or not the *)
(* address is modified in the node.                                         *)
ParentLookupErr(addr) == lookup(base, stack, Len(stack) - 1, addr).err

ParentDataErr(a) ==
    lookupCreatableData(base, stack, Len(stack) - 1, a.addr, a.cidx, a.ctype,
                        a.global, a.local).err

\* The call the step made asked the parent
AskedParent ==
    \/ /\ result'.op = "lookup"
       /\ result'.args.addr \notin DOMAIN stack[Len(stack)].Accts
       /\ ParentLookupErr(result'.args.addr) # NoErr
    \/ /\ result'.op = "lookupCreatableData"
       /\ result'.args.global \/ result'.args.local
       /\ ~AnsweredByNode(stack[Len(stack)], result'.args.addr, result'.args.cidx,
                          result'.args.ctype, result'.args.global, result'.args.local)
       /\ ParentDataErr(result'.args) # NoErr

C39_Step ==
    AskedParent =>
       /\ result'.err = (IF result'.op = "lookup" THEN ParentLookupErr(result'.args.addr)
                         ELSE ParentDataErr(result'.args))
       /\ stack'[Len(stack)].getPadCache = stack[Len(stack)].getPadCache

C39_ParentErrorSurfaces == [][C39_Step]_vars

(* C40: storage counts never wrap. Over every sequence of SetKey, DelKey,   *)
(* Allocate, Deallocate, child and commitToParent, updateCounts is never    *)
(* called to decrement a NumUint or NumByteSlice that is zero, and no count *)
(* of a storage delta is 2^64 - 1.                                          *)
\* updateCounts decrements a count of lsd that is zero
DecrementsZero(lsd, bv, bok) ==
    /\ bok
    /\ KnownType(bv)
    /\ (IF bv.Type = TealBytesType THEN lsd.counts.NumByteSlice
        ELSE lsd.counts.NumUint) = U64(0)

\* The SetKey or DelKey of the step got as far as its call of updateCounts
ReachedUpdateCounts(a) ==
    /\ a.op \in {"SetKey", "DelKey"}
    /\ a.op = "SetKey" =>
          /\ Len(a.key) <= MaxAppKeyLen
          /\ ~(a.value.Type = TealBytesType /\ Len(a.value.Bytes) > MaxAppBytesValueLen)
    /\ allocated(base, stack, Len(stack), a.st) = [ok |-> TRUE, err |-> NoErr]
    /\ getKey(base, stack, Len(stack), a.st, a.key).err = NoErr
    /\ ensureStorageDelta(base, stack, a.st, remainAllocAction).err = NoErr

C40_Step ==
    (result'.op \in {"SetKey", "DelKey"} /\ ReachedUpdateCounts(result'.args)) =>
       ~DecrementsZero(
           ensureStorageDelta(base, stack, result'.args.st, remainAllocAction)
              .stack[Len(stack)].sdeltas[result'.args.st],
           getKey(base, stack, Len(stack), result'.args.st, result'.args.key).value,
           getKey(base, stack, Len(stack), result'.args.st, result'.args.key).ok)

C40_NotWrapped ==
    \A d \in 1..Len(stack) : \A st \in DOMAIN stack[d].sdeltas :
       /\ stack[d].sdeltas[st].counts.NumUint # MaxUint64
       /\ stack[d].sdeltas[st].counts.NumByteSlice # MaxUint64

C40_CountsNeverWrap == []C40_NotWrapped /\ [][C40_Step]_vars

=============================================================================
